---- MODULE Spec2Model ----
(***************************************************************************)
(* Model of punisherblood/Scrapper, package schedule_parser.               *)
(*                                                                         *)
(* Representation.  A Python str is a sequence of one-character strings    *)
(* (<<"a", " ", "(">>), so that strip(), the regular expressions and int() *)
(* are computed character by character.  Latin letters stand for the       *)
(* Cyrillic ones of the site: every operation below distinguishes only     *)
(* whitespace, digits, ".", "(", ")", "+", "-", "_" and other characters.  *)
(* Optional[T] is a sequence of length at most one: None is <<>> and a     *)
(* value v is <<v>>.  A datetime.date is the integer y*10000 + m*100 + d,  *)
(* whose order is the order of dates.                                      *)
(***************************************************************************)
EXTENDS Integers, Sequences, FiniteSets, TLC

VARIABLES
    doc,              \* the parsed html argument (what BeautifulSoup exposes)
    window,           \* window[c] = <<date_from, date_to>> of invocation c
    call,             \* number of the invocation of parse_schedule_from_cg in progress
    pc,               \* position in parse_schedule_from_cg: idle (no call in
                      \* progress), walk (in the for loop), sort (after it)
    idx,              \* number of tr elements the for loop has consumed
    maxColspan,       \* local maxColspan (Optional[int])
    table_date,       \* local table_date (Optional[date])
    table_date_bound, \* whether the local table_date has been assigned yet
    slotNumber,       \* local slotNumber
    events,           \* local events
    result,           \* result[c]: what invocation c returned or raised
    subj_in,          \* argument of a direct call of _parse_subject_and_type
    subj_out,         \* what that call returned (Optional), None before it
    http_pc,          \* position in _request_with_retry: idle, loop, after, done
    attempt,          \* loop variable attempt of _request_with_retry
    last_status,      \* local last_status (Optional[int])
    last_exc,         \* local last_exc (Optional, the name of the exception)
    http_log,         \* the calls of _request_once and time.sleep, in order
    http_out,         \* what _request_with_retry returned or raised
    gh_path,          \* the argument path of get_html
    gh_url,           \* local url of get_html (Optional), None before line 167
    gh_resp,          \* local resp of get_html (Optional), None before line 168
    gh_out,           \* what get_html returned or raised
    hg_doc,           \* the a elements of the html argument of parse_groups_from_hg
    hg_out,           \* what parse_groups_from_hg returned (Optional), None before
    db_events,        \* the committed rows of the table lesson_events
    db_refs,          \* the committed tables subjects, teachers and rooms
    st_args,          \* the arguments of replace_events_for_group
    st_pc,            \* position in replace_events_for_group: idle, insert (in
                      \* the loop of lines 262-284 or at the INSERT), done
    st_rows,          \* local rows, handed to executemany
    st_out,           \* what replace_events_for_group returned or raised
    st_calls,         \* the number of calls of replace_events_for_group made
    st_before,        \* lesson_events as that call of replace_events_for_group found it
    run_site,         \* what fetch_groups meets: it raises, or the groups of hg.htm
    run_opts,         \* RunOptions.group_code (Optional[str])
    run_pc,           \* position in run_parser: idle, fetch, loop, finish, done
    run_groups,       \* local all_groups after the filter
    run_cnt,          \* locals groups_total, groups_ok, groups_failed, events_saved_total
    run_attempts,     \* the iterations of the loop over the groups, in order
    run_finishes,     \* the calls of Storage.finish_run, in order
    run_rec,          \* the row of parser_runs of this run (Optional)
    run_conn,         \* the connection: none, open, aborted, closed
    run_out           \* none, or whether run_parser returned or raised

vars == <<doc, window, call, pc, idx, maxColspan, table_date, table_date_bound,
          slotNumber, events, result, subj_in, subj_out,
          http_pc, attempt, last_status, last_exc, http_log, http_out,
          gh_path, gh_url, gh_resp, gh_out,
          hg_doc, hg_out, db_events, db_refs, st_args, st_pc, st_rows, st_out,
          st_calls, st_before,
          run_site, run_opts, run_pc, run_groups, run_cnt, run_attempts,
          run_finishes, run_rec, run_conn, run_out>>

cgVars == <<doc, window, call, pc, idx, maxColspan, table_date, table_date_bound,
            slotNumber, events, result>>

subjVars == <<subj_in, subj_out>>

httpVars == <<http_pc, attempt, last_status, last_exc, http_log, http_out>>

getVars == <<gh_path, gh_url, gh_resp, gh_out>>

\* the variables of the modules other than parse_cg.py
hgVars == <<hg_doc, hg_out>>

storeVars == <<db_events, db_refs, st_args, st_pc, st_rows, st_out, st_calls, st_before>>

runVars == <<run_site, run_opts, run_pc, run_groups, run_cnt, run_attempts,
             run_finishes, run_rec, run_conn, run_out>>

otherVars == <<httpVars, getVars, hgVars, storeVars, runVars>>

\* the variables that the steps of one module leave alone
notHttp == <<cgVars, subjVars, getVars, hgVars, storeVars, runVars>>

notGet == <<cgVars, subjVars, hgVars, storeVars, runVars>>

notHg == <<cgVars, subjVars, httpVars, getVars, storeVars, runVars>>

notStore == <<cgVars, subjVars, httpVars, getVars, hgVars, runVars>>

notRun == <<cgVars, subjVars, httpVars, getVars, hgVars, storeVars>>

None == <<>>

Some(v) == <<v>>

\* no call of _request_with_retry has been made
HttpIdle ==
    /\ http_pc = "idle"
    /\ attempt = 0
    /\ last_status = None
    /\ last_exc = None
    /\ http_log = <<>>
    /\ http_out = [status |-> "none", value |-> <<>>, error |-> "", detail |-> ""]

\* no call of get_html has been made
GetIdle ==
    /\ gh_path = <<>>
    /\ gh_url = None
    /\ gh_resp = None
    /\ gh_out = [status |-> "none", value |-> <<>>, error |-> "", detail |-> ""]

\* no call of parse_groups_from_hg has been made
HgIdle == hg_doc = <<>> /\ hg_out = None

\* no call of replace_events_for_group has been made on an empty database
StoreIdle ==
    /\ db_events = <<>>
    /\ db_refs = [subjects |-> {}, teachers |-> {}, rooms |-> {}]
    /\ st_args = [group_id |-> 0, date_from |-> 0, date_to |-> 0, events |-> <<>>]
    /\ st_pc = "idle"
    /\ st_rows = <<>>
    /\ st_out = [status |-> "none", value |-> 0, error |-> ""]
    /\ st_calls = 0
    /\ st_before = <<>>

\* no call of run_parser has been made
RunIdle ==
    /\ run_site = [raises |-> FALSE, groups |-> <<>>]
    /\ run_opts = None
    /\ run_pc = "idle"
    /\ run_groups = <<>>
    /\ run_cnt = [total |-> 0, ok |-> 0, failed |-> 0, saved |-> 0]
    /\ run_attempts = <<>>
    /\ run_finishes = <<>>
    /\ run_rec = None
    /\ run_conn = "none"
    /\ run_out = "none"

OthersIdle == HttpIdle /\ GetIdle /\ HgIdle /\ StoreIdle /\ RunIdle

(***************************************************************************)
(* str helpers                                                             *)
(***************************************************************************)
\* str.isspace for the characters of the model
IsSpace(c) == c \in {" ", "\n", "\t"}

Digits == <<"0", "1", "2", "3", "4", "5", "6", "7", "8", "9">>

IsDigit(c) == \E i \in 1..10 : Digits[i] = c

DigitVal(c) == (CHOOSE i \in 1..10 : Digits[i] = c) - 1

RECURSIVE LStrip(_)
LStrip(s) == IF s # <<>> /\ IsSpace(Head(s)) THEN LStrip(Tail(s)) ELSE s

RECURSIVE RStrip(_)
RStrip(s) ==
    IF s # <<>> /\ IsSpace(s[Len(s)]) THEN RStrip(SubSeq(s, 1, Len(s) - 1)) ELSE s

\* str.strip()
Strip(s) == RStrip(LStrip(s))

AllSpace(s) == \A i \in 1..Len(s) : IsSpace(s[i])

RECURSIVE DigitsVal(_)
DigitsVal(s) ==
    IF s = <<>> THEN 0 ELSE DigitsVal(SubSeq(s, 1, Len(s) - 1)) * 10 + DigitVal(s[Len(s)])

\* the digits of an int literal: decimal digits with single underscores
\* between digits; None stands for ValueError
ParseDigits(body) ==
    IF /\ body # <<>>
       /\ \A i \in 1..Len(body) : IsDigit(body[i]) \/ body[i] = "_"
       /\ IsDigit(body[1]) /\ IsDigit(body[Len(body)])
       /\ \A i \in 1..(Len(body) - 1) : ~(body[i] = "_" /\ body[i + 1] = "_")
    THEN Some(DigitsVal(SelectSeq(body, IsDigit)))
    ELSE None

Negated(n) == IF n = None THEN None ELSE Some(0 - n[1])

ParseSigned(t) ==
    IF t # <<>> /\ Head(t) = "-" THEN Negated(ParseDigits(Tail(t)))
    ELSE IF t # <<>> /\ Head(t) = "+" THEN ParseDigits(Tail(t))
    ELSE ParseDigits(t)

\* int(str): surrounding whitespace is ignored, one sign is allowed
ParseInt(s) == ParseSigned(Strip(s))

(***************************************************************************)
(* _parse_date_from_text, parse_cg.py:108-118                              *)
(***************************************************************************)
\* _DATE_RE matches at position i: dd.mm.yyyy
DateAt(s, i) ==
    /\ i + 9 <= Len(s)
    /\ \A k \in {0, 1, 3, 4, 6, 7, 8, 9} : IsDigit(s[i + k])
    /\ s[i + 2] = "." /\ s[i + 5] = "."

IsLeap(y) == (y % 4 = 0 /\ y % 100 # 0) \/ y % 400 = 0

DaysInMonth(y, m) ==
    IF m \in {4, 6, 9, 11} THEN 30
    ELSE IF m = 2 THEN (IF IsLeap(y) THEN 29 ELSE 28)
    ELSE 31

\* datetime.date(y, mo, d) raises ValueError outside these ranges
ValidDate(y, m, d) ==
    /\ y >= 1 /\ y <= 9999
    /\ m >= 1 /\ m <= 12
    /\ d >= 1 /\ d <= DaysInMonth(y, m)

MkDate(y, m, d) == y * 10000 + m * 100 + d

\* lines 112-118: the date of the match at position i, None on ValueError
DateOfMatch(text, i) ==
    IF ValidDate(DigitsVal(SubSeq(text, i + 6, i + 9)),
                 DigitsVal(SubSeq(text, i + 3, i + 4)),
                 DigitsVal(SubSeq(text, i, i + 1)))
    THEN Some(MkDate(DigitsVal(SubSeq(text, i + 6, i + 9)),
                     DigitsVal(SubSeq(text, i + 3, i + 4)),
                     DigitsVal(SubSeq(text, i, i + 1))))
    ELSE None

Least(S) == CHOOSE n \in S : \A m \in S : n <= m

\* _DATE_RE.search takes the leftmost match
FirstDate(text, hits) == IF hits = {} THEN None ELSE DateOfMatch(text, Least(hits))

_parse_date_from_text(text) == FirstDate(text, {i \in 1..Len(text) : DateAt(text, i)})

(***************************************************************************)
(* _parse_subject_and_type, parse_cg.py:185-205, with _SUBJECT_TYPE_RE     *)
(***************************************************************************)
IsParen(c) == c \in {"(", ")"}

\* r is matched in full by \s*\((?P<typ>[^()]*)\)\s* followed by $
GroupMatches(r) ==
    LET t == LStrip(r)
    IN  /\ t # <<>> /\ Head(t) = "("
        /\ \E j \in 2..Len(t) :
              /\ t[j] = ")"
              /\ \A k \in 2..(j - 1) : ~IsParen(t[k])
              /\ AllSpace(SubSeq(t, j + 1, Len(t)))

\* the text captured as typ when GroupMatches(r)
GroupTyp(r) ==
    LET t == LStrip(r)
        j == CHOOSE n \in 2..Len(t) : t[n] = ")" /\ \A k \in 2..(n - 1) : t[k] # ")"
    IN  SubSeq(t, 2, j - 1)

\* $ without re.MULTILINE: the end of the string, or just before a final newline
AtEnd(r) == r = <<>> \/ r = <<"\n">>

\* the lengths k the lazy (?P<subj>.*?) can take in a successful match; "."
\* does not match a newline
SubjLengths(s) ==
    {k \in 0..Len(s) :
        /\ \A i \in 1..k : s[i] # "\n"
        /\ (GroupMatches(SubSeq(s, k + 1, Len(s))) \/ AtEnd(SubSeq(s, k + 1, Len(s))))}

\* the groups of the match whose subj has length k
MatchGroups(s, k) ==
    [subj |-> SubSeq(s, 1, k),
     typ |-> IF GroupMatches(SubSeq(s, k + 1, Len(s)))
             THEN Some(GroupTyp(SubSeq(s, k + 1, Len(s))))
             ELSE None]

ShortestMatch(s, lengths) == IF lengths = {} THEN None ELSE Some(MatchGroups(s, Least(lengths)))

\* _SUBJECT_TYPE_RE.match(s): Optional[groups]
_SUBJECT_TYPE_RE(s) == ShortestMatch(s, SubjLengths(s))

\* lines 200-204
StrippedTyp(typ) ==
    IF typ = None THEN None
    ELSE IF Strip(typ[1]) = <<>> THEN None
    ELSE Some(Strip(typ[1]))

\* lines 196-205
SplitOfMatch(s, m) ==
    IF m = None THEN <<s, None>> ELSE <<Strip(m[1].subj), StrippedTyp(m[1].typ)>>

\* lines 192-205
SplitStripped(s) == IF s = <<>> THEN <<<<>>, None>> ELSE SplitOfMatch(s, _SUBJECT_TYPE_RE(s))

\* returns <<subject_text, lesson_type>>
_parse_subject_and_type(subject_raw) == SplitStripped(Strip(subject_raw))

(***************************************************************************)
(* The document tree.  A td is [rowspan, class, colspan, content]: whether *)
(* it has a rowspan attribute, its class list, its colspan attribute       *)
(* (Optional[str]) and its child nodes in document order.  A child node is *)
(* a text node or an <a> element holding one text node.  A tr is the       *)
(* sequence of its td elements.  A document is [table, thead, headtds,     *)
(* rows]: whether it has a <table>, whether the table has a <thead>, the   *)
(* content of each td of the thead, and every tr of the table in document  *)
(* order.                                                                  *)
(***************************************************************************)
Txt(s) == [tag |-> "text", class |-> <<>>, href |-> None, text |-> s]

Link(cls, href, s) == [tag |-> "a", class |-> <<cls>>, href |-> Some(href), text |-> s]

Td(rowspan, class, colspan, content) ==
    [rowspan |-> rowspan, class |-> class, colspan |-> colspan, content |-> content]

RECURSIVE StrippedStrings(_)
StrippedStrings(nodes) ==
    IF nodes = <<>> THEN <<>>
    ELSE (IF Strip(Head(nodes).text) = <<>> THEN <<>> ELSE <<Strip(Head(nodes).text)>>)
             \o StrippedStrings(Tail(nodes))

RECURSIVE JoinWith(_, _)
JoinWith(strs, sep) ==
    IF strs = <<>> THEN <<>>
    ELSE IF Len(strs) = 1 THEN strs[1]
    ELSE strs[1] \o sep \o JoinWith(Tail(strs), sep)

\* Tag.get_text(" ", strip=True) of an element with these child nodes
GetTextStripped(nodes) == JoinWith(StrippedStrings(nodes), <<" ">>)

RECURSIVE Concat(_)
Concat(nodes) == IF nodes = <<>> THEN <<>> ELSE Head(nodes).text \o Concat(Tail(nodes))

\* Tag.text of an element with these child nodes
TextOf(nodes) == Concat(nodes)

HasClass(node, cls) == \E i \in 1..Len(node.class) : node.class[i] = cls

\* td.find("a", class_=cls, href=True): Optional[node]
FindLink(td, cls) ==
    LET hits == {i \in 1..Len(td.content) :
                    /\ td.content[i].tag = "a"
                    /\ HasClass(td.content[i], cls)
                    /\ td.content[i].href # None}
    IN  IF hits = {} THEN None
        ELSE Some(td.content[CHOOSE h \in hits : \A g \in hits : h <= g])

LinkText(a) == IF a = None THEN None ELSE Some(GetTextStripped(<<a[1]>>))

\* a variant that takes the reference of a link only when it is not empty
LinkUrlNonEmpty(a) ==
    IF a = None THEN None
    ELSE IF Strip(a[1].href[1]) = <<>> THEN None
    ELSE Some(Strip(a[1].href[1]))

LinkUrl(a) == IF a = None THEN None ELSE Some(Strip(a[1].href[1]))

(***************************************************************************)
(* _extract_event_from_lesson_td, parse_cg.py:132-182: Optional event      *)
(***************************************************************************)
\* line 150
SubjectRaw(a_subj) == IF a_subj = None THEN <<>> ELSE LinkText(a_subj)[1]

\* a variant without the fallbacks of lines 166-167
SubjectTextNoFallback(split_subject, subject_raw, cell_text) == split_subject

\* lines 166-167
SubjectText(split_subject, subject_raw, cell_text) ==
    IF split_subject # <<>> THEN split_subject
    ELSE IF Strip(subject_raw) # <<>> THEN Strip(subject_raw)
    ELSE cell_text

\* lines 153-182, from the three links found in the td
EventOfLinks(cell_text, a_subj, a_room, a_teacher, lesson_date, group_code, slot_number, subgroup, source_group_url) ==
    Some([date |-> lesson_date,
          group_code |-> group_code,
          slot_number |-> slot_number,
          subgroup |-> subgroup,
          subject_text |-> SubjectText(_parse_subject_and_type(SubjectRaw(a_subj))[1],
                                       SubjectRaw(a_subj), cell_text),
          lesson_type |-> _parse_subject_and_type(SubjectRaw(a_subj))[2],
          teacher_text |-> LinkText(a_teacher),
          room_text |-> LinkText(a_room),
          source_group_url |-> source_group_url,
          source_journal_url |-> LinkUrl(a_subj),
          source_teacher_url |-> LinkUrl(a_teacher),
          source_room_url |-> LinkUrl(a_room)])

\* lines 148-182: the event built from a td
EventOfTd(td, lesson_date, group_code, slot_number, subgroup, source_group_url) ==
    EventOfLinks(GetTextStripped(td.content), FindLink(td, "z1"), FindLink(td, "z2"),
                 FindLink(td, "z3"), lesson_date, group_code, slot_number, subgroup,
                 source_group_url)

\* a variant that builds an event from a td with no visible text as well
ExtractEventKeepEmpty(td, lesson_date, group_code, slot_number, subgroup, source_group_url) ==
    EventOfTd(td, lesson_date, group_code, slot_number, subgroup, source_group_url)

_extract_event_from_lesson_td(td, lesson_date, group_code, slot_number, subgroup, source_group_url) ==
    IF GetTextStripped(td.content) = <<>> THEN None
    ELSE EventOfTd(td, lesson_date, group_code, slot_number, subgroup, source_group_url)

(***************************************************************************)
(* _colspanCounter, parse_cg.py:105-107: [err, val], err "" when it        *)
(* returns val (Optional[int])                                             *)
(***************************************************************************)
\* line 107 on the children of the last td of the thead
IntOfFirstChild(children) ==
    IF children = <<>> THEN [err |-> "", val |-> None]
    ELSE IF ParseInt(children[1].text) = None THEN [err |-> "ValueError", val |-> None]
    ELSE [err |-> "", val |-> ParseInt(children[1].text)]

_colspanCounter(d) ==
    IF ~d.table THEN [err |-> "AttributeError", val |-> None]
    ELSE IF ~d.thead THEN [err |-> "AttributeError", val |-> None]
    ELSE IF d.headtds = <<>> THEN [err |-> "IndexError", val |-> None]
    ELSE IntOfFirstChild(d.headtds[Len(d.headtds)])

(***************************************************************************)
(* parse_schedule_from_cg, parse_cg.py:64-100                              *)
(***************************************************************************)
\* line 88: the td is taken as a lesson cell
IsLessonTd(td) == ~td.rowspan /\ td.class # <<"hd">>

\* a variant that counts every lesson cell, whole-group cells too
NextSubgroupCountsAll(cs, maxc, subgroup) == subgroup + 1

\* a variant that does not advance the counter
NextSubgroupNoAdvance(cs, maxc, subgroup) == IF cs = maxc THEN 0 ELSE 1

\* lines 89-92: the subgroup of a lesson cell of column span cs
NextSubgroup(cs, maxc, subgroup) == IF cs = maxc THEN 0 ELSE subgroup + 1

\* lines 94-95 followed by the rest of the loop
Emit(ev, rest) == [evs |-> ev \o rest.evs, err |-> rest.err]

\* lines 87-95 from the j-th td of tr on: [evs, err], the events appended
\* and the exception a td raised ("" when the loop ran to its end)
RECURSIVE WalkCells(_, _, _, _, _, _, _, _)
RECURSIVE WalkLessonTd(_, _, _, _, _, _, _, _)
RECURSIVE WalkSubgroup(_, _, _, _, _, _, _, _)
WalkCells(tr, j, subgroup, date, slot, maxc, group_code, cg_url) ==
    IF j > Len(tr) THEN [evs |-> <<>>, err |-> ""]
    ELSE IF ~IsLessonTd(tr[j])
         THEN WalkCells(tr, j + 1, subgroup, date, slot, maxc, group_code, cg_url)
    ELSE WalkLessonTd(tr, j, subgroup, date, slot, maxc, group_code, cg_url)

\* line 89: int(td.get("colspan"))
WalkLessonTd(tr, j, subgroup, date, slot, maxc, group_code, cg_url) ==
    IF tr[j].colspan = None THEN [evs |-> <<>>, err |-> "TypeError"]
    ELSE IF ParseInt(tr[j].colspan[1]) = None THEN [evs |-> <<>>, err |-> "ValueError"]
    ELSE WalkSubgroup(tr, j, NextSubgroup(ParseInt(tr[j].colspan[1]), maxc, subgroup),
                      date, slot, maxc, group_code, cg_url)

\* lines 93-95 with the subgroup sg of the j-th td, then the next td
WalkSubgroup(tr, j, sg, date, slot, maxc, group_code, cg_url) ==
    Emit(_extract_event_from_lesson_td(tr[j], date, group_code, slot, sg, cg_url),
         WalkCells(tr, j + 1, sg, date, slot, maxc, group_code, cg_url))

\* a variant that keeps the date of the block when a row of three td holds
\* no parseable date
DateAfterRowKeepsDate(tr, date) ==
    IF Len(tr) = 3 /\ _parse_date_from_text(TextOf(tr[1].content)) # None
    THEN _parse_date_from_text(TextOf(tr[1].content))
    ELSE date

\* lines 82-83: table_date after the test of a row of exactly three td
DateAfterRow(tr, date) ==
    IF Len(tr) = 3 THEN _parse_date_from_text(TextOf(tr[1].content)) ELSE date

\* lines 96-98: <<table_date, slotNumber>> at the end of a loop iteration
SlotLimit == 8

\* a variant that never resets the counter
EndOfRowNoReset(date, slot) == <<date, slot>>

\* a variant that resets the counter at 8 but keeps the date context
EndOfRowKeepDate(date, slot) == IF slot = SlotLimit THEN <<date, 0>> ELSE <<date, slot>>

EndOfRow(date, slot) == IF slot = SlotLimit THEN <<None, 0>> ELSE <<date, slot>>

\* lines 85-98 for a row walked as a lesson row, w being what its cells gave
LessonRowStep(date, slot, w, loc) ==
    IF w.err # ""
    THEN [table_date |-> date, bound |-> TRUE, slotNumber |-> slot,
          events |-> loc.events \o w.evs, err |-> w.err]
    ELSE [table_date |-> EndOfRow(date, slot)[1], bound |-> TRUE,
          slotNumber |-> EndOfRow(date, slot)[2],
          events |-> loc.events \o w.evs, err |-> ""]

\* lines 84-98 with table_date as lines 82-83 left it
DatedRowStep(tr, date, loc, maxc, group_code, cg_url) ==
    IF date = None
    THEN [table_date |-> EndOfRow(date, loc.slotNumber)[1], bound |-> TRUE,
          slotNumber |-> EndOfRow(date, loc.slotNumber)[2],
          events |-> loc.events, err |-> ""]
    ELSE LessonRowStep(date, loc.slotNumber + 1,
                       WalkCells(tr, 1, 0, date[1], loc.slotNumber + 1, maxc,
                                 group_code, cg_url),
                       loc)

\* lines 82-98, one iteration of the for loop on tr with the locals loc =
\* [table_date, bound, slotNumber, events]; err is the exception raised
\* inside the iteration, "" when there is none
RowStep(tr, loc, maxc, group_code, cg_url) ==
    IF Len(tr) # 3 /\ ~loc.bound
    THEN [table_date |-> loc.table_date, bound |-> FALSE, slotNumber |-> loc.slotNumber,
          events |-> loc.events, err |-> "UnboundLocalError"]
    ELSE DatedRowStep(tr, DateAfterRow(tr, loc.table_date), loc, maxc, group_code, cg_url)

KeyLE(a, b) ==
    \/ a.date < b.date
    \/ a.date = b.date /\ a.slot_number < b.slot_number
    \/ a.date = b.date /\ a.slot_number = b.slot_number /\ a.subgroup <= b.subgroup

RECURSIVE InsertSorted(_, _)
InsertSorted(e, s) ==
    IF s = <<>> THEN <<e>>
    ELSE IF KeyLE(Head(s), e) THEN <<Head(s)>> \o InsertSorted(e, Tail(s))
    ELSE <<e>> \o s

RECURSIVE SortedFrom(_, _)
SortedFrom(s, n) == IF n = 0 THEN <<>> ELSE InsertSorted(s[n], SortedFrom(s, n - 1))

\* a variant that returns the events in the order of the walk
UnsortedEvents(evs) == evs

\* line 99: list.sort with key (date, slot_number, subgroup), stable
SortEvents(evs) == SortedFrom(evs, Len(evs))

\* a variant that keeps only the events dated inside the window
ReturnValueInWindow(evs, date_from, date_to) ==
    LET inWindow(e) == date_from <= e.date /\ e.date <= date_to
    IN  SortEvents(SelectSeq(evs, inWindow))

\* lines 99-100: the list returned for the walked events; date_from and
\* date_to are parameters of the function that its body never reads
ReturnValue(evs, date_from, date_to) == SortEvents(evs)

\* a variant in which the locals are module-level state that outlives a call
StaleLocals(prev) == prev

\* lines 76 and 80 and the scope of table_date: the locals at the start of a
\* call, whatever an earlier call left behind
FreshLocals(prev) ==
    [table_date |-> None, bound |-> FALSE, slotNumber |-> 0, events |-> <<>>]

(***************************************************************************)
(* Documents                                                               *)
(***************************************************************************)
S_13 == <<"1", "3", ".", "0", "1", ".", "2", "0", "2", "6">>

S_12 == <<"1", "2", ".", "0", "1", ".", "2", "0", "2", "6">>

S_31feb == <<"3", "1", ".", "0", "2", ".", "2", "0", "2", "6">>

D_13 == MkDate(2026, 1, 13)

D_12 == MkDate(2026, 1, 12)

DateTd(s) == Td(TRUE, <<"hd">>, None, <<Txt(s \o <<" ", "T", "u">>)>>)

SlotTd == Td(FALSE, <<"hd">>, None, <<Txt(<<"1">>)>>)

WholeTd ==
    Td(FALSE, <<"ur">>, Some(<<"2">>),
       <<Link("z1", <<"j", "1">>, <<"M", " ", "(", "L", ")">>),
         Txt(<<"\n">>),
         Link("z2", <<"r", "1">>, <<"7">>),
         Link("z3", <<" ", "t", "1">>, <<"I", "v">>)>>)

SubTdA ==
    Td(FALSE, <<"ur">>, Some(<<"1">>),
       <<Link("z1", <<"j", "2">>, <<"P", " ", "(", ")">>),
         Link("z3", <<"t", "2">>, <<"P", "e">>)>>)

SubTdB == Td(FALSE, <<"ur">>, Some(<<" ", "1">>), <<Txt(<<"B", " ", "(", "S", ")">>)>>)

\* no visible text: whitespace and a link whose text is blank
EmptyTd ==
    Td(FALSE, <<"ur">>, Some(<<"1">>),
       <<Txt(<<"\n", " ">>), Link("z1", <<"j", "3">>, <<" ">>)>>)

\* no colspan attribute
NoColspanTd == Td(FALSE, <<"ur">>, None, <<Txt(<<"X">>)>>)

RowDate13 == <<DateTd(S_13), SlotTd, WholeTd>>

RowDate12 == <<DateTd(S_12), SlotTd, WholeTd>>

RowBadDate == <<DateTd(S_31feb), SlotTd, WholeTd>>

RowThree == <<SlotTd, SubTdA, SubTdB>>

RowTwoSubs == <<SubTdA, SubTdB>>

RowSingle == <<WholeTd>>

RowMixed == <<SlotTd, EmptyTd, WholeTd, SubTdA>>

RowEmpty == <<SlotTd, EmptyTd>>

RowNoColspan == <<SlotTd, SubTdA, NoColspanTd, SubTdB>>

ShortRows == {RowDate13, RowDate12, RowBadDate, RowThree, RowTwoSubs, RowSingle,
              RowMixed, RowNoColspan}

FillerRows == {RowEmpty, RowSingle}

TailRows == {RowSingle, RowDate12, RowThree}

HeadTds(s) == <<<<Txt(<<"D">>)>>, <<Txt(<<"N">>)>>, <<Txt(s)>>>>

MkDoc(rows) == [table |-> TRUE, thead |-> TRUE, headtds |-> HeadTds(<<"2">>), rows |-> rows]

NoTableDoc == [table |-> FALSE, thead |-> FALSE, headtds |-> <<>>, rows |-> <<>>]

OddRows == <<RowDate13, RowTwoSubs>>

OddDocs ==
    {NoTableDoc,
     [table |-> TRUE, thead |-> FALSE, headtds |-> <<>>, rows |-> OddRows],
     [table |-> TRUE, thead |-> TRUE, headtds |-> <<>>, rows |-> OddRows],
     [table |-> TRUE, thead |-> TRUE, headtds |-> <<<<Txt(<<"D">>)>>, <<>>>>, rows |-> OddRows],
     [table |-> TRUE, thead |-> TRUE, headtds |-> HeadTds(<<"s", "g">>), rows |-> OddRows],
     [table |-> TRUE, thead |-> TRUE, headtds |-> HeadTds(<<"1", "\n">>), rows |-> OddRows]}

MaxRows == 3

MaxFill == 7

MaxTail == 2

SeqsUpTo(S, n) == UNION {[1..k -> S] : k \in 0..n}

ShortDocs == {MkDoc(rows) : rows \in SeqsUpTo(ShortRows, MaxRows)}

LongDocs ==
    {MkDoc(<<RowDate13>> \o [i \in 1..k |-> f] \o tail) :
        k \in 1..MaxFill, f \in FillerRows, tail \in SeqsUpTo(TailRows, MaxTail)}

\* a colspan attribute that is not an integer
BadColspanTd == Td(FALSE, <<"ur">>, Some(<<"x">>), <<Txt(<<"Y">>)>>)

RowBadColspan == <<SlotTd, WholeTd, BadColspanTd, SubTdA>>

\* an a element without an href attribute
Anchor(cls, s) == [tag |-> "a", class |-> <<cls>>, href |-> None, text |-> s]

\* a subject link whose text is only a parenthetical
ParenOnlyTd ==
    Td(FALSE, <<"ur">>, Some(<<"1">>), <<Link("z1", <<"j", "4">>, <<"(", "L", ")">>)>>)

\* a subject link and a room link whose texts are blank, beside a text node
BlankLinkTd ==
    Td(FALSE, <<"ur">>, Some(<<"1">>),
       <<Link("z1", <<"j", "5">>, <<" ">>), Txt(<<"Q">>), Link("z2", <<"r", "2">>, <<" ">>)>>)

\* links without an href: the subject link, the teacher link and the first
\* of two room links, the second of which has an empty href
NoHrefTd ==
    Td(FALSE, <<"ur">>, Some(<<"2">>),
       <<Anchor("z1", <<"M">>), Anchor("z2", <<"7">>), Link("z2", <<>>, <<"8">>),
         Anchor("z3", <<"I", "v">>)>>)

RowLinkTexts == <<ParenOnlyTd, BlankLinkTd>>

RowNoHref == <<NoHrefTd>>

\* documents with a well-formed header and rows of particular interest
CellDocs ==
    {MkDoc(<<RowDate13, RowBadColspan>>), MkDoc(<<RowDate13, RowLinkTexts, RowNoHref>>)}

Docs == ShortDocs \cup LongDocs \cup OddDocs \cup CellDocs

\* the window of scripts/test_cg_local.py, and one that leaves out both dates
ScriptWindow == <<MkDate(2026, 1, 12), MkDate(2026, 1, 16)>>

Windows == {ScriptWindow, <<MkDate(2026, 1, 14), MkDate(2026, 1, 16)>>}

Calls == 1..2

GroupCode == "AT141"

CgUrl == "cg352.htm"

NoResult == [status |-> "none", value |-> <<>>, error |-> ""]

Returned(evs) == [status |-> "returned", value |-> evs, error |-> ""]

Raised(err) == [status |-> "raised", value |-> <<>>, error |-> err]

(***************************************************************************)
(* Specification of parse_schedule_from_cg: two invocations in a row on    *)
(* the same document, group code and url                                   *)
(***************************************************************************)
Locals == [table_date |-> table_date, bound |-> table_date_bound,
           slotNumber |-> slotNumber, events |-> events]

SubjIdle == subj_in = <<>> /\ subj_out = None

Init ==
    /\ doc \in Docs
    /\ window \in {w \in [Calls -> Windows] : w[1] = ScriptWindow}
    /\ call = 0
    /\ pc = "idle"
    /\ idx = 0
    /\ maxColspan = None
    /\ table_date = None
    /\ table_date_bound = FALSE
    /\ slotNumber = 0
    /\ events = <<>>
    /\ result = [c \in Calls |-> NoResult]
    /\ SubjIdle
    /\ OthersIdle

\* the locals and the position after lines 75-80
Enter(loc, cc) ==
    /\ table_date' = loc.table_date
    /\ table_date_bound' = loc.bound
    /\ slotNumber' = loc.slotNumber
    /\ events' = loc.events
    /\ maxColspan' = cc.val
    /\ IF cc.err # ""
       THEN /\ pc' = "idle"
            /\ result' = [result EXCEPT ![call + 1] = Raised(cc.err)]
       ELSE /\ pc' = IF doc.rows = <<>> THEN "sort" ELSE "walk"
            /\ UNCHANGED result

\* lines 75-80: the call, up to the start of the for loop
Call ==
    /\ pc = "idle"
    /\ call + 1 \in Calls
    /\ call' = call + 1
    /\ idx' = 0
    /\ Enter(FreshLocals(Locals), _colspanCounter(doc))
    /\ UNCHANGED <<doc, window, subjVars, otherVars>>

\* the locals and the position after one iteration that gave r
Advance(r) ==
    /\ table_date' = r.table_date
    /\ table_date_bound' = r.bound
    /\ slotNumber' = r.slotNumber
    /\ events' = r.events
    /\ IF r.err # ""
       THEN /\ pc' = "idle"
            /\ result' = [result EXCEPT ![call] = Raised(r.err)]
       ELSE /\ pc' = IF idx + 1 = Len(doc.rows) THEN "sort" ELSE "walk"
            /\ UNCHANGED result

\* lines 81-98: one iteration of the for loop
WalkRow ==
    /\ pc = "walk"
    /\ idx < Len(doc.rows)
    /\ idx' = idx + 1
    /\ Advance(RowStep(doc.rows[idx + 1], Locals, maxColspan, GroupCode, CgUrl))
    /\ UNCHANGED <<doc, window, call, maxColspan, subjVars, otherVars>>

\* lines 99-100: sort and return
Return ==
    /\ pc = "sort"
    /\ pc' = "idle"
    /\ events' = SortEvents(events)
    /\ result' = [result EXCEPT ![call] =
                     Returned(ReturnValue(events, window[call][1], window[call][2]))]
    /\ UNCHANGED <<doc, window, call, idx, maxColspan, table_date, table_date_bound,
                   slotNumber, subjVars, otherVars>>

Next == Call \/ WalkRow \/ Return

Spec == Init /\ [][Next]_vars

(***************************************************************************)
(* Specification of direct calls of _parse_subject_and_type                *)
(***************************************************************************)
MaxSubjLen == 5

SubjAlphabet == {"a", " ", "(", ")", "\n"}

\* stand-ins for the two strings of the documentation of the function
S_FizkulturaLek ==
    <<"F", "i", "z", "i", "c", "h", "e", "s", "k", "a", "y", "a", " ",
      "k", "u", "l", "t", "u", "r", "a", " ", "(", "L", "e", "k", ".", ")">>

S_Biologiya == <<"B", "i", "o", "l", "o", "g", "i", "y", "a", " ", "(", ")">>

SubjInputs == SeqsUpTo(SubjAlphabet, MaxSubjLen) \cup {S_FizkulturaLek, S_Biologiya}

CgIdle ==
    /\ doc = NoTableDoc
    /\ window = [c \in Calls |-> ScriptWindow]
    /\ call = 0
    /\ pc = "idle"
    /\ idx = 0
    /\ maxColspan = None
    /\ table_date = None
    /\ table_date_bound = FALSE
    /\ slotNumber = 0
    /\ events = <<>>
    /\ result = [c \in Calls |-> NoResult]

InitSubj ==
    /\ subj_in \in SubjInputs
    /\ subj_out = None
    /\ CgIdle
    /\ OthersIdle

ParseSubject ==
    /\ subj_out = None
    /\ subj_out' = Some(_parse_subject_and_type(subj_in))
    /\ UNCHANGED <<subj_in, cgVars, otherVars>>

NextSubj == ParseSubject

SpecSubj == InitSubj /\ [][NextSubj]_vars

(***************************************************************************)
(* http_client.py: _should_retry and _request_with_retry.  A reply of      *)
(* _request_once is [status, exc]: exc is "" and status the status code    *)
(* of the response, or exc names the requests.RequestException raised.     *)
(***************************************************************************)
\* config.py:10
HTTP_RETRIES == 2

\* config.py:11, 1.5 seconds counted in tenths of a second
HTTP_RETRY_DELAY == 15

\* a variant that retries whatever the status
ShouldRetryAlways(status_code, exc) == TRUE

\* lines 55-76: status_code is Optional[int], exc is Optional
_should_retry(status_code, exc) ==
    IF exc # None THEN TRUE
    ELSE IF status_code = None THEN TRUE
    ELSE IF status_code[1] = 429 THEN TRUE
    ELSE IF 500 <= status_code[1] /\ status_code[1] <= 599 THEN TRUE
    ELSE FALSE

\* line 115
total_attempts == 1 + HTTP_RETRIES

\* a variant that sleeps after the last attempt too
SleepsAfterEvery(att) == TRUE

\* line 153
SleepsAfter(att) == att < total_attempts

Response(status) == [status |-> status, exc |-> ""]

Failure(exc) == [status |-> 0, exc |-> exc]

Statuses == {200, 204, 403, 404, 429, 499, 500, 503, 599, 600}

RequestExceptions == {"ConnectionError", "Timeout"}

Replies == {Response(s) : s \in Statuses} \cup {Failure(e) : e \in RequestExceptions}

GetEntry(reply) == [op |-> "get", status |-> reply.status, exc |-> reply.exc, delay |-> 0]

SleepEntry == [op |-> "sleep", status |-> 0, exc |-> "", delay |-> HTTP_RETRY_DELAY]

\* lines 119-142: what an iteration does with the reply of _request_once
AttemptOutcome(reply) ==
    IF reply.exc = ""
    THEN IF reply.status = 200 THEN "return"
         ELSE IF ~_should_retry(Some(reply.status), None) THEN "raise"
         ELSE "retry"
    ELSE IF ~_should_retry(None, Some(reply.exc)) THEN "raise"
         ELSE "retry"

\* lines 128 and 142: the detail of the HttpClientError raised in the loop
LoopErrorDetail(reply) ==
    IF reply.exc = "" THEN "Non-retriable status" ELSE "Non-retriable request error"

\* lines 157-162: the detail of the HttpClientError raised after the loop
ExhaustedDetail(status, exc) ==
    IF status # None THEN "last status"
    ELSE IF exc # None THEN "last error"
    ELSE "unknown reason"

HttpNoResult == [status |-> "none", value |-> None, error |-> "", detail |-> ""]

HttpReturned(status) ==
    [status |-> "returned", value |-> Some(status), error |-> "", detail |-> ""]

HttpRaised(detail) ==
    [status |-> "raised", value |-> None, error |-> "HttpClientError", detail |-> detail]

\* lines 153-154 appended to the log after the request of attempt att
LogAfterRetry(log, att) == IF SleepsAfter(att) THEN log \o <<SleepEntry>> ELSE log

InitHttp ==
    /\ HttpIdle
    /\ GetIdle
    /\ CgIdle
    /\ SubjIdle
    /\ HgIdle
    /\ StoreIdle
    /\ RunIdle

\* lines 112-117: the call, up to the first iteration of the loop
HttpCall ==
    /\ http_pc = "idle"
    /\ http_out = HttpNoResult
    /\ http_pc' = "loop"
    /\ attempt' = 1
    /\ last_exc' = None
    /\ last_status' = None
    /\ UNCHANGED <<http_log, http_out, notHttp>>

\* lines 118-154 for one reply, outcome being what lines 119-142 decide
AttemptStep(reply, outcome) ==
    /\ last_status' = IF reply.exc = "" THEN Some(reply.status) ELSE last_status
    /\ last_exc' = IF reply.exc = "" THEN last_exc ELSE Some(reply.exc)
    /\ IF outcome = "return"
       THEN /\ http_log' = http_log \o <<GetEntry(reply)>>
            /\ http_out' = HttpReturned(reply.status)
            /\ http_pc' = "done"
            /\ UNCHANGED attempt
       ELSE IF outcome = "raise"
       THEN /\ http_log' = http_log \o <<GetEntry(reply)>>
            /\ http_out' = HttpRaised(LoopErrorDetail(reply))
            /\ http_pc' = "done"
            /\ UNCHANGED attempt
       ELSE /\ http_log' = LogAfterRetry(http_log \o <<GetEntry(reply)>>, attempt)
            /\ http_pc' = IF attempt < total_attempts THEN "loop" ELSE "after"
            /\ attempt' = IF attempt < total_attempts THEN attempt + 1 ELSE attempt
            /\ UNCHANGED http_out

\* lines 117-154: one iteration of the for loop
HttpAttempt ==
    /\ http_pc = "loop"
    /\ \E reply \in Replies : AttemptStep(reply, AttemptOutcome(reply))
    /\ UNCHANGED notHttp

\* lines 156-162: retries exhausted
HttpExhausted ==
    /\ http_pc = "after"
    /\ http_pc' = "done"
    /\ http_out' = HttpRaised(ExhaustedDetail(last_status, last_exc))
    /\ UNCHANGED <<attempt, last_status, last_exc, http_log, notHttp>>

NextHttp == HttpCall \/ HttpAttempt \/ HttpExhausted

SpecHttp == InitHttp /\ [][NextHttp]_vars

\* the call is a sequential program: it takes its next step
FairSpecHttp == SpecHttp /\ WF_vars(NextHttp)

(***************************************************************************)
(* http_client.py: get_html with _build_url and _validate_html_response.   *)
(* A response is [status_code, content_type, encoding, apparent_encoding,  *)
(* text_declared, text_apparent, text_default]: content_type is what       *)
(* resp.headers.get("Content-Type") gives (Optional str), encoding is      *)
(* resp.encoding as requests derived it from the headers (Optional str,    *)
(* "" for an empty charset), apparent_encoding is what the detection on    *)
(* the bytes of the body gives (Optional str, None when it finds none),    *)
(* and the three texts are the body decoded with the declared encoding,    *)
(* with the apparent encoding and with the default of str().               *)
(***************************************************************************)
\* config.py:4
BASE_URL ==
    <<"h", "t", "t", "p", "s", ":", "/", "/", "n", "m", "k", "n", "f", ".", "r", "u",
      "/", "h", "t", "m", "l", "/">>

S_http == <<"h", "t", "t", "p", ":", "/", "/">>

S_https == <<"h", "t", "t", "p", "s", ":", "/", "/">>

\* str.startswith
StartsWith(s, prefix) == Len(s) >= Len(prefix) /\ SubSeq(s, 1, Len(prefix)) = prefix

RECURSIVE LStripSlash(_)
LStripSlash(s) == IF s # <<>> /\ Head(s) = "/" THEN LStripSlash(Tail(s)) ELSE s

RECURSIVE RStripSlash(_)
RStripSlash(s) ==
    IF s # <<>> /\ s[Len(s)] = "/" THEN RStripSlash(SubSeq(s, 1, Len(s) - 1)) ELSE s

\* lines 45-52 for the stripped path p
UrlOfPath(p) ==
    IF p = <<>> THEN None
    ELSE IF StartsWith(p, S_http) \/ StartsWith(p, S_https) THEN Some(p)
    ELSE Some(RStripSlash(BASE_URL) \o <<"/">> \o LStripSlash(p))

\* lines 39-52: Optional[str], None standing for HttpClientError
_build_url(path) == UrlOfPath(Strip(path))

UpperLetters ==
    <<"A", "B", "C", "D", "E", "F", "G", "H", "I", "J", "K", "L", "M",
      "N", "O", "P", "Q", "R", "S", "T", "U", "V", "W", "X", "Y", "Z">>

LowerLetters ==
    <<"a", "b", "c", "d", "e", "f", "g", "h", "i", "j", "k", "l", "m",
      "n", "o", "p", "q", "r", "s", "t", "u", "v", "w", "x", "y", "z">>

LowerChar(c) ==
    IF \E i \in 1..Len(UpperLetters) : UpperLetters[i] = c
    THEN LowerLetters[CHOOSE i \in 1..Len(UpperLetters) : UpperLetters[i] = c]
    ELSE c

\* str.lower()
StrLower(s) == [i \in 1..Len(s) |-> LowerChar(s[i])]

\* sub in s
Contains(s, sub) == \E i \in 0..(Len(s) - Len(sub)) : SubSeq(s, i + 1, i + Len(sub)) = sub

S_text_html == <<"t", "e", "x", "t", "/", "h", "t", "m", "l">>

S_iso_8859_1 == <<"i", "s", "o", "-", "8", "8", "5", "9", "-", "1">>

\* the body decoded with the encoding enc (Optional str): str() falls back
\* to its default when there is no encoding or no codec of that name
DecodedWith(resp, enc) ==
    IF enc = None \/ enc[1] = <<>> THEN resp.text_default
    ELSE IF enc = resp.apparent_encoding THEN resp.text_apparent
    ELSE resp.text_declared

\* resp.text: the body decoded with resp.encoding, and with the apparent
\* encoding when resp.encoding is None
TextOfResponse(resp) ==
    IF resp.encoding = None THEN DecodedWith(resp, resp.apparent_encoding)
    ELSE DecodedWith(resp, resp.encoding)

\* line 170: not resp.encoding or resp.encoding.lower() == "iso-8859-1"
EncodingInDoubt(encoding) ==
    \/ encoding = None
    \/ encoding[1] = <<>>
    \/ StrLower(encoding[1]) = S_iso_8859_1

\* lines 170-171
FixEncoding(resp) ==
    IF EncodingInDoubt(resp.encoding)
    THEN [resp EXCEPT !.encoding = resp.apparent_encoding]
    ELSE resp

\* line 97
ContentTypeOf(resp) ==
    IF resp.content_type = None THEN <<>> ELSE StrLower(resp.content_type[1])

\* a variant that does not look at the body
ValidateNoBodyCheck(resp) ==
    IF resp.status_code # 200 THEN "Non-200 status"
    ELSE IF ContentTypeOf(resp) # <<>> /\ ~Contains(ContentTypeOf(resp), S_text_html)
    THEN "Unexpected Content-Type"
    ELSE ""

\* lines 90-105: the detail of the HttpClientError raised, "" when the
\* response is accepted
_validate_html_response(resp) ==
    IF resp.status_code # 200 THEN "Non-200 status"
    ELSE IF ContentTypeOf(resp) # <<>> /\ ~Contains(ContentTypeOf(resp), S_text_html)
    THEN "Unexpected Content-Type"
    ELSE IF Strip(TextOfResponse(resp)) = <<>> THEN "Empty HTML"
    ELSE ""

S_ISO_8859_1 == <<"I", "S", "O", "-", "8", "8", "5", "9", "-", "1">>

S_utf_8 == <<"u", "t", "f", "-", "8">>

S_windows_1251 == <<"w", "i", "n", "d", "o", "w", "s", "-", "1", "2", "5", "1">>

S_ascii == <<"a", "s", "c", "i", "i">>

S_charset == <<";", " ", "c", "h", "a", "r", "s", "e", "t", "=">>

\* Content-Type headers with the encoding that requests derives from each:
\* no header, an empty one, text/html without a charset, with one, with an
\* empty one and in upper case, other media types, and a blank one
HeaderCases ==
    {[content_type |-> None, encoding |-> None],
     [content_type |-> Some(<<>>), encoding |-> None],
     [content_type |-> Some(S_text_html), encoding |-> Some(S_ISO_8859_1)],
     [content_type |-> Some(S_text_html \o S_charset \o S_utf_8), encoding |-> Some(S_utf_8)],
     [content_type |-> Some(S_text_html \o S_charset), encoding |-> Some(<<>>)],
     [content_type |-> Some(<<"T", "E", "X", "T", "/", "H", "T", "M", "L">>), encoding |-> None],
     [content_type |-> Some(<<"t", "e", "x", "t", "/", "p", "l", "a", "i", "n">>),
      encoding |-> Some(S_ISO_8859_1)],
     [content_type |-> Some(<<"i", "m", "a", "g", "e", "/", "p", "n", "g">>), encoding |-> None],
     [content_type |-> Some(<<" ">>), encoding |-> None]}

S_page == <<"<", "p", ">", "\n">>

\* text that a wrong encoding makes of the bytes of a page
S_garbled == <<"?", "?">>

\* bodies, each with the encoding detected on its bytes and its text under
\* the declared encoding, the apparent one and the default: an empty body,
\* a blank one, a page in ASCII, a page in windows-1251, a byte order mark
\* alone (blank under the apparent encoding only), and bytes on which no
\* encoding is detected
BodyCases ==
    {[apparent_encoding |-> Some(S_utf_8), declared |-> <<>>, apparent |-> <<>>,
      default |-> <<>>],
     [apparent_encoding |-> Some(S_ascii), declared |-> <<" ", "\n">>,
      apparent |-> <<" ", "\n">>, default |-> <<" ", "\n">>],
     [apparent_encoding |-> Some(S_ascii), declared |-> S_page, apparent |-> S_page,
      default |-> S_page],
     [apparent_encoding |-> Some(S_windows_1251), declared |-> S_garbled,
      apparent |-> S_page, default |-> S_garbled],
     [apparent_encoding |-> Some(<<"u", "t", "f", "-", "1", "6">>), declared |-> S_garbled,
      apparent |-> <<>>, default |-> S_garbled],
     [apparent_encoding |-> None, declared |-> S_garbled, apparent |-> <<>>,
      default |-> S_garbled]}

\* the responses with this status that _request_with_retry can hand over
ResponsesWith(status) ==
    {[status_code |-> status, content_type |-> h.content_type, encoding |-> h.encoding,
      apparent_encoding |-> b.apparent_encoding, text_declared |-> b.declared,
      text_apparent |-> b.apparent, text_default |-> b.default] :
        h \in HeaderCases, b \in BodyCases}

\* the argument path: empty, blank, relative with and without a leading
\* slash and surrounding whitespace, absolute
GetPaths ==
    {<<>>, <<" ", "\n">>,
     <<"c", "g", "1", ".", "h", "t", "m">>,
     <<" ", "/", "h", "g", ".", "h", "t", "m">>,
     S_http \o <<"h", "/", "x">>}

GetNoResult == [status |-> "none", value |-> <<>>, error |-> "", detail |-> ""]

GetReturned(text) == [status |-> "returned", value |-> text, error |-> "", detail |-> ""]

GetRaised(detail) ==
    [status |-> "raised", value |-> <<>>, error |-> "HttpClientError", detail |-> detail]

InitGet ==
    /\ gh_path \in GetPaths
    /\ gh_url = None
    /\ gh_resp = None
    /\ gh_out = GetNoResult
    /\ HttpIdle
    /\ CgIdle
    /\ SubjIdle
    /\ HgIdle
    /\ StoreIdle
    /\ RunIdle

\* line 167, and line 168 up to the first iteration of the loop of
\* _request_with_retry
GetHtmlCall ==
    /\ gh_out = GetNoResult
    /\ gh_url = None
    /\ http_pc = "idle"
    /\ gh_url' = _build_url(gh_path)
    /\ IF _build_url(gh_path) = None
       THEN /\ gh_out' = GetRaised("Empty path provided to HTTP client")
            /\ UNCHANGED httpVars
       ELSE /\ http_pc' = "loop"
            /\ attempt' = 1
            /\ last_exc' = None
            /\ last_status' = None
            /\ UNCHANGED <<gh_out, http_log, http_out>>
    /\ UNCHANGED <<gh_path, gh_resp, notGet>>

\* lines 170-175 for the response resp, after the encoding was settled
ValidateStep(resp, detail) ==
    /\ gh_resp' = Some(resp)
    /\ gh_out' = IF detail = "" THEN GetReturned(TextOfResponse(resp)) ELSE GetRaised(detail)

\* lines 168-175: _request_with_retry raised, or it returned a response
\* with the status it saw, whose headers and body are read here first
GetHtmlFinish ==
    /\ gh_out = GetNoResult
    /\ http_pc = "done"
    /\ IF http_out.status = "raised"
       THEN gh_out' = GetRaised(http_out.detail) /\ UNCHANGED gh_resp
       ELSE \E resp \in ResponsesWith(http_out.value[1]) :
                ValidateStep(FixEncoding(resp), _validate_html_response(FixEncoding(resp)))
    /\ UNCHANGED <<gh_path, gh_url, httpVars, notGet>>

NextGet == GetHtmlCall \/ HttpAttempt \/ HttpExhausted \/ GetHtmlFinish

SpecGet == InitGet /\ [][NextGet]_vars

(***************************************************************************)
(* parse_hg.py: parse_groups_from_hg.  The document is the sequence of its *)
(* a elements in document order, each [href (Optional str), text].         *)
(***************************************************************************)
\* the case folding of re.IGNORECASE on the letters of the pattern
Lower(c) ==
    CASE c = "C" -> "c"
      [] c = "G" -> "g"
      [] c = "H" -> "h"
      [] c = "T" -> "t"
      [] c = "M" -> "m"
      [] OTHER -> c

\* cg, one or more digits, .htm, letters in either case, nothing else
CgBody(s) ==
    /\ Len(s) >= 7
    /\ Lower(s[1]) = "c"
    /\ Lower(s[2]) = "g"
    /\ \A i \in 3..(Len(s) - 4) : IsDigit(s[i])
    /\ s[Len(s) - 3] = "."
    /\ Lower(s[Len(s) - 2]) = "h"
    /\ Lower(s[Len(s) - 1]) = "t"
    /\ Lower(s[Len(s)]) = "m"

\* line 13: _CG_RE.match(s) succeeds; $ also matches before a final newline
_CG_RE(s) ==
    \/ CgBody(s)
    \/ s # <<>> /\ s[Len(s)] = "\n" /\ CgBody(SubSeq(s, 1, Len(s) - 1))

\* the code point of a character of the documents below
Ord(c) ==
    CASE c = " " -> 32
      [] c = "1" -> 49
      [] c = "2" -> 50
      [] c = "A" -> 65
      [] c = "B" -> 66
      [] c = "a" -> 97

\* str.__lt__ and str.__le__: lexicographic on code points
RECURSIVE StrLT(_, _)
StrLT(a, b) ==
    IF b = <<>> THEN FALSE
    ELSE IF a = <<>> THEN TRUE
    ELSE IF Head(a) = Head(b) THEN StrLT(Tail(a), Tail(b))
    ELSE Ord(Head(a)) < Ord(Head(b))

StrLE(a, b) == a = b \/ StrLT(a, b)

GroupRef(code, cg_url) == [code |-> code, cg_url |-> cg_url]

\* a variant that appends the group without looking at seen
KeepGroupAlways(st, code, href) ==
    [groups |-> st.groups \o <<GroupRef(code, href)>>,
     seen |-> st.seen \cup {<<code, href>>}]

\* lines 51-56 on the locals st = [groups, seen]
KeepGroup(st, code, href) ==
    IF <<code, href>> \in st.seen THEN st
    ELSE [groups |-> st.groups \o <<GroupRef(code, href)>>,
          seen |-> st.seen \cup {<<code, href>>}]

\* lines 41-56 for an a element with stripped href and text code
LinkStep(st, href, code) ==
    IF href = <<>> THEN st
    ELSE IF ~_CG_RE(href) THEN st
    ELSE IF code = <<>> THEN st
    ELSE KeepGroup(st, code, href)

\* lines 40-56 from the i-th a element on; find_all("a", href=True) leaves
\* out the elements without the attribute
RECURSIVE CollectGroups(_, _, _)
CollectGroups(links, i, st) ==
    IF i > Len(links) THEN st
    ELSE IF links[i].href = None THEN CollectGroups(links, i + 1, st)
    ELSE CollectGroups(links, i + 1,
                       LinkStep(st, Strip(links[i].href[1]),
                                GetTextStripped(<<links[i]>>)))

RECURSIVE InsertByCode(_, _)
InsertByCode(g, s) ==
    IF s = <<>> THEN <<g>>
    ELSE IF StrLE(Head(s).code, g.code) THEN <<Head(s)>> \o InsertByCode(g, Tail(s))
    ELSE <<g>> \o s

RECURSIVE SortedByCodeFrom(_, _)
SortedByCodeFrom(s, n) ==
    IF n = 0 THEN <<>> ELSE InsertByCode(s[n], SortedByCodeFrom(s, n - 1))

\* a variant that returns the groups in document order
GroupsUnsorted(groups) == groups

\* line 58: list.sort with key code, stable
SortGroups(groups) == SortedByCodeFrom(groups, Len(groups))

\* lines 34-59
parse_groups_from_hg(links) ==
    SortGroups(CollectGroups(links, 1, [groups |-> <<>>, seen |-> {}]).groups)

HgLink(href, text) == [tag |-> "a", class |-> <<>>, href |-> href, text |-> text]

H_cg1 == <<"c", "g", "1", ".", "h", "t", "m">>

H_cg2 == <<"c", "g", "2", ".", "h", "t", "m">>

H_CG12 == <<" ", "C", "g", "1", "2", ".", "H", "T", "M", "\n">>

HgLinks ==
    {HgLink(Some(H_cg1), <<"B", "1">>),
     HgLink(Some(H_cg1), <<" ", "B", "1", "\n">>),
     HgLink(Some(H_cg2), <<"B", "1">>),
     HgLink(Some(H_cg2), <<"a", "1">>),
     HgLink(Some(H_CG12), <<"A", " ", "2">>),
     HgLink(Some(H_cg1), <<" ">>),
     HgLink(None, <<"A", "1">>),
     HgLink(Some(<<>>), <<"A", "1">>),
     HgLink(Some(<<"h", "g", ".", "h", "t", "m">>), <<"A", "1">>),
     HgLink(Some(<<"c", "g", ".", "h", "t", "m">>), <<"A", "1">>),
     HgLink(Some(<<"c", "g", "1", "a", "h", "t", "m">>), <<"A", "1">>),
     HgLink(Some(H_cg1 \o <<"l">>), <<"A", "1">>)}

MaxLinks == 3

HgDocs == SeqsUpTo(HgLinks, MaxLinks)

InitHg ==
    /\ hg_doc \in HgDocs
    /\ hg_out = None
    /\ CgIdle
    /\ SubjIdle
    /\ HttpIdle
    /\ GetIdle
    /\ StoreIdle
    /\ RunIdle

ParseGroups ==
    /\ hg_out = None
    /\ hg_out' = Some(parse_groups_from_hg(hg_doc))
    /\ UNCHANGED <<hg_doc, notHg>>

NextHg == ParseGroups

SpecHg == InitHg /\ [][NextHg]_vars

(***************************************************************************)
(* storage.py: Storage.replace_events_for_group and Storage.resolve_ids.   *)
(* The database is its committed content: db_events is the table           *)
(* lesson_events in insertion order, db_refs the tables subjects, teachers *)
(* and rooms.  The id of a row of a reference table is represented by its  *)
(* name, which the ON CONFLICT (name) clauses make unique.                 *)
(***************************************************************************)
\* the truth value of an Optional[str] in an if statement
Truthy(opt) == opt # None /\ opt[1] # <<>>

JournalKey(ev) ==
    [kind |-> "journal", date |-> ev.date, slot_number |-> ev.slot_number,
     subgroup |-> ev.subgroup, source_journal_url |-> ev.source_journal_url,
     subject_text |-> <<>>, teacher_text |-> None, room_text |-> None]

FieldsKey(ev) ==
    [kind |-> "fields", date |-> ev.date, slot_number |-> ev.slot_number,
     subgroup |-> ev.subgroup, source_journal_url |-> None,
     subject_text |-> ev.subject_text, teacher_text |-> ev.teacher_text,
     room_text |-> ev.room_text]

\* a variant whose key is the journal reference alone
EventKeyJournalOnly(ev) ==
    IF Truthy(ev.source_journal_url)
    THEN [kind |-> "journal", date |-> 0, slot_number |-> 0, subgroup |-> 0,
          source_journal_url |-> ev.source_journal_url,
          subject_text |-> <<>>, teacher_text |-> None, room_text |-> None]
    ELSE FieldsKey(ev)

\* lines 229-239: the 4-tuple or the 6-tuple, told apart by kind
_event_key(ev) == IF Truthy(ev.source_journal_url) THEN JournalKey(ev) ELSE FieldsKey(ev)

\* line 244 on the dict d, a sequence of [key, val] in insertion order
DictPut(d, key, ev) ==
    IF \E i \in 1..Len(d) : d[i].key = key
    THEN [i \in 1..Len(d) |-> IF d[i].key = key THEN [key |-> key, val |-> ev] ELSE d[i]]
    ELSE d \o <<[key |-> key, val |-> ev]>>

\* lines 242-244 for the first n events
RECURSIVE UniqueFrom(_, _)
UniqueFrom(evs, n) ==
    IF n = 0 THEN <<>> ELSE DictPut(UniqueFrom(evs, n - 1), _event_key(evs[n]), evs[n])

\* line 246
DictValues(d) == [i \in 1..Len(d) |-> d[i].val]

\* lines 241-247: the deduplicated events, sorted
DedupEvents(evs) == SortEvents(DictValues(UniqueFrom(evs, Len(evs))))

\* lines 129-139 on the table subjects, a set of names
_upsert_subject(subjects, name) == subjects \cup {name}

\* lines 141-170 on the table teachers or rooms, a set of [name, source_url]
UpsertNamed(tbl, name, source_url) ==
    IF \E r \in tbl : r.name = name
    THEN {IF r.name = name
          THEN [name |-> name,
                source_url |-> IF r.source_url # None THEN r.source_url ELSE source_url]
          ELSE r : r \in tbl}
    ELSE tbl \cup {[name |-> name, source_url |-> source_url]}

\* lines 172-191: the reference tables after resolve_ids(conn, ev)
RefsAfter(refs, ev) ==
    [subjects |-> IF ev.subject_text # <<>>
                  THEN _upsert_subject(refs.subjects, ev.subject_text)
                  ELSE refs.subjects,
     teachers |-> IF Truthy(ev.teacher_text)
                  THEN UpsertNamed(refs.teachers, ev.teacher_text[1], ev.source_teacher_url)
                  ELSE refs.teachers,
     rooms |-> IF Truthy(ev.room_text)
               THEN UpsertNamed(refs.rooms, ev.room_text[1], ev.source_room_url)
               ELSE refs.rooms]

\* lines 178-191: the DbIds that resolve_ids(conn, ev) returns
DbIds(ev) ==
    [subject_id |-> IF ev.subject_text # <<>> THEN Some(ev.subject_text) ELSE None,
     teacher_id |-> IF Truthy(ev.teacher_text) THEN ev.teacher_text ELSE None,
     room_id |-> IF Truthy(ev.room_text) THEN ev.room_text ELSE None]

\* lines 265-284: the row of lesson_events for ev
RowOf(ev, ids, group_id) ==
    [event_date |-> ev.date, group_id |-> group_id, slot_number |-> ev.slot_number,
     subgroup |-> ev.subgroup, subject_id |-> ids.subject_id,
     teacher_id |-> ids.teacher_id, room_id |-> ids.room_id,
     lesson_type |-> ev.lesson_type, source_group_url |-> ev.source_group_url,
     source_journal_url |-> ev.source_journal_url,
     source_teacher_url |-> ev.source_teacher_url,
     source_room_url |-> ev.source_room_url, subject_text_raw |-> ev.subject_text,
     teacher_text_raw |-> ev.teacher_text, room_text_raw |-> ev.room_text]

\* a variant of the DELETE that ignores the date window
AfterDeleteWholeGroup(tbl, group_id, date_from, date_to) ==
    LET kept(r) == r.group_id # group_id
    IN  SelectSeq(tbl, kept)

\* lines 214-221: lesson_events after the DELETE
AfterDelete(tbl, group_id, date_from, date_to) ==
    LET kept(r) == ~(/\ r.group_id = group_id
                     /\ date_from <= r.event_date
                     /\ r.event_date <= date_to)
    IN  SelectSeq(tbl, kept)

StEvent(date, slot, sg, subject, teacher, room, journal) ==
    [date |-> date, group_code |-> GroupCode, slot_number |-> slot, subgroup |-> sg,
     subject_text |-> subject, lesson_type |-> None, teacher_text |-> teacher,
     room_text |-> room, source_group_url |-> CgUrl, source_journal_url |-> journal,
     source_teacher_url |-> None, source_room_url |-> None]

U_j1 == Some(<<"j", "1">>)

\* a date after the window of the call
D_20 == MkDate(2026, 1, 20)

\* two events with the same date, slot, subgroup and journal; one in another
\* slot with that journal; two without a journal (None and "") and with the
\* same texts; one dated outside the window
StEvents ==
    {StEvent(D_13, 1, 0, <<"M">>, Some(<<"I", "v">>), Some(<<"7">>), U_j1),
     StEvent(D_13, 1, 0, <<"P">>, Some(<<"P", "e">>), None, U_j1),
     StEvent(D_13, 2, 0, <<"M">>, Some(<<"I", "v">>), Some(<<"7">>), U_j1),
     StEvent(D_13, 1, 1, <<"B">>, None, None, None),
     StEvent(D_13, 1, 1, <<"B">>, None, None, Some(<<>>)),
     StEvent(D_20, 1, 0, <<"M">>, None, Some(<<"7">>), Some(<<"j", "2">>))}

MaxEvents == 3

StEventLists == SeqsUpTo(StEvents, MaxEvents)

StGroupId == 1

OtherGroupId == 2

\* rows stored by earlier runs: this group inside and outside the window,
\* and another group inside the window
StoredRows ==
    <<RowOf(StEvent(D_12, 3, 0, <<"M">>, None, None, U_j1), [subject_id |-> Some(<<"M">>),
            teacher_id |-> None, room_id |-> None], StGroupId),
      RowOf(StEvent(D_20, 3, 0, <<"M">>, None, None, U_j1), [subject_id |-> Some(<<"M">>),
            teacher_id |-> None, room_id |-> None], StGroupId),
      RowOf(StEvent(D_12, 3, 0, <<"M">>, None, None, U_j1), [subject_id |-> Some(<<"M">>),
            teacher_id |-> None, room_id |-> None], OtherGroupId)>>

StoredTables == {<<>>, StoredRows}

StoredRefs(tbl) ==
    [subjects |-> {tbl[i].subject_text_raw : i \in 1..Len(tbl)}, teachers |-> {}, rooms |-> {}]

StNoResult == [status |-> "none", value |-> 0, error |-> ""]

StReturned(n) == [status |-> "returned", value |-> n, error |-> ""]

StRaised(err) == [status |-> "raised", value |-> 0, error |-> err]

InitStore ==
    /\ st_args \in {[group_id |-> StGroupId, date_from |-> ScriptWindow[1],
                     date_to |-> ScriptWindow[2], events |-> evs] : evs \in StEventLists}
    /\ db_events \in StoredTables
    /\ db_refs = StoredRefs(db_events)
    /\ st_pc = "idle"
    /\ st_rows = <<>>
    /\ st_out = StNoResult
    /\ st_calls = 0
    /\ st_before = <<>>
    /\ CgIdle
    /\ SubjIdle
    /\ HttpIdle
    /\ GetIdle
    /\ HgIdle
    /\ RunIdle

\* the calls made in a row with the same arguments
StCalls == 1..2

\* a call can start: the first one, or the next one after a call that returned
CanCall ==
    \/ st_pc = "idle"
    \/ st_pc = "done" /\ st_out.status = "returned"

\* lines 212-226: the DELETE, its commit, and the return for no events
ReplaceDelete ==
    /\ CanCall
    /\ st_calls + 1 \in StCalls
    /\ st_calls' = st_calls + 1
    /\ st_before' = db_events
    /\ db_events' = AfterDelete(db_events, st_args.group_id, st_args.date_from,
                                st_args.date_to)
    /\ st_rows' = <<>>
    /\ IF st_args.events = <<>>
       THEN st_pc' = "done" /\ st_out' = StReturned(0)
       ELSE st_pc' = "insert" /\ st_out' = StNoResult
    /\ UNCHANGED <<st_args, db_refs, notStore>>

\* lines 262-284 for the event ev: resolve_ids with its commit (line 190),
\* then rows.append
ResolveStep(ev) ==
    /\ db_refs' = RefsAfter(db_refs, ev)
    /\ st_rows' = Append(st_rows, RowOf(ev, DbIds(ev), st_args.group_id))

\* lines 262-284: one iteration of the loop over the deduplicated events
ReplaceResolve ==
    /\ st_pc = "insert"
    /\ Len(st_rows) < Len(DedupEvents(st_args.events))
    /\ ResolveStep(DedupEvents(st_args.events)[Len(st_rows) + 1])
    /\ UNCHANGED <<db_events, st_args, st_pc, st_out, st_calls, st_before, notStore>>

\* lines 286-310: the bulk INSERT, its commit and the return
ReplaceInsert ==
    /\ st_pc = "insert"
    /\ Len(st_rows) = Len(DedupEvents(st_args.events))
    /\ st_pc' = "done"
    /\ db_events' = db_events \o st_rows
    /\ st_out' = StReturned(Len(st_rows))
    /\ UNCHANGED <<db_refs, st_args, st_rows, st_calls, st_before, notStore>>

\* lines 262-309 when the next statement raises, in resolve_ids or in
\* executemany: what that statement's transaction did is not committed
ReplaceInsertFails ==
    /\ st_pc = "insert"
    /\ st_pc' = "done"
    /\ st_out' = StRaised("psycopg.Error")
    /\ UNCHANGED <<db_events, db_refs, st_args, st_rows, st_calls, st_before, notStore>>

NextStore == ReplaceDelete \/ ReplaceResolve \/ ReplaceInsert \/ ReplaceInsertFails

SpecStore == InitStore /\ [][NextStore]_vars

(***************************************************************************)
(* runner.py: run_parser.  fetch_groups, fetch_group_schedule and the      *)
(* Storage methods are represented by their outcomes: what they return or  *)
(* that they raise.  run_conn is the state of the psycopg connection:      *)
(* open, aborted (a statement failed inside the transaction: every later   *)
(* statement raises until a rollback, and run_parser never rolls back) or  *)
(* closed.                                                                 *)
(***************************************************************************)
\* lines 40-43
ZeroCounters == [total |-> 0, ok |-> 0, failed |-> 0, saved |-> 0]

\* lines 50-51
FilterGroups(groups, group_code) ==
    LET wanted(g) == g.code = group_code[1]
    IN  IF Truthy(group_code) THEN SelectSeq(groups, wanted) ELSE groups

\* what one iteration of the loop over the groups can meet: an
\* HttpClientError of the fetch, an exception of the parser, an exception of
\* the database, or replace_events_for_group returning the inserted count
Stored(n) == [kind |-> "stored", inserted |-> n]

Failed(kind) == [kind |-> kind, inserted |-> 0]

InsertedCounts == 0..2

GroupOutcomes(conn) ==
    IF conn = "open"
    THEN {Stored(n) : n \in InsertedCounts}
             \cup {Failed("http_error"), Failed("parse_error"), Failed("db_error")}
    ELSE {Failed("db_error")}

\* lines 89-90 and 94
CountersAfter(cnt, outcome) ==
    IF outcome.kind = "stored"
    THEN [cnt EXCEPT !.saved = @ + outcome.inserted, !.ok = @ + 1]
    ELSE [cnt EXCEPT !.failed = @ + 1]

\* line 98
FinalStatus(groups_failed) == IF groups_failed = 0 THEN "success" ELSE "partial"

\* the connection after an iteration with this outcome
ConnAfter(conn, outcome) == IF outcome.kind = "db_error" THEN "aborted" ELSE conn

\* a call of Storage.finish_run made at this line of runner.py
FinishCall(line, status, cnt, conn) ==
    [line |-> line, status |-> status, groups_total |-> cnt.total,
     groups_ok |-> cnt.ok, groups_failed |-> cnt.failed, events_saved |-> cnt.saved,
     raised |-> conn # "open"]

\* storage.py:48-59, the row of parser_runs after create_run
StartedRun ==
    [status |-> "started", groups_total |-> None, groups_ok |-> None,
     groups_failed |-> None, events_saved |-> None]

\* storage.py:61-87, the row of parser_runs after the UPDATE of a call c of
\* finish_run that did not raise
FinishedRun(c) ==
    [status |-> c.status, groups_total |-> Some(c.groups_total),
     groups_ok |-> Some(c.groups_ok), groups_failed |-> Some(c.groups_failed),
     events_saved |-> Some(c.events_saved)]

RunAfterCall(rec, c) == IF c.raised THEN rec ELSE FinishedRun(c)

G_A1 == GroupRef(<<"A", "1">>, H_cg1)

G_B1 == GroupRef(<<"B", "1">>, H_cg2)

G_B1b == GroupRef(<<"B", "1">>, <<"c", "g", "1", "2", ".", "h", "t", "m">>)

SiteGroups == {G_A1, G_B1, G_B1b}

MaxGroups == 3

\* the lists that parse_groups_from_hg can return: sorted by code, no pair twice
SiteLists ==
    {gs \in SeqsUpTo(SiteGroups, MaxGroups) :
        \A i, j \in 1..Len(gs) :
            i < j => StrLE(gs[i].code, gs[j].code) /\ gs[i] # gs[j]}

\* fetch_groups raises, or returns one of the lists
Sites == {[raises |-> TRUE, groups |-> <<>>]}
             \cup {[raises |-> FALSE, groups |-> gs] : gs \in SiteLists}

\* RunOptions.group_code
GroupFilters == {None, Some(<<"B", "1">>), Some(<<"A", "2">>)}

InitRun ==
    /\ run_site \in Sites
    /\ run_opts \in GroupFilters
    /\ run_pc = "idle"
    /\ run_groups = <<>>
    /\ run_cnt = ZeroCounters
    /\ run_attempts = <<>>
    /\ run_finishes = <<>>
    /\ run_rec = None
    /\ run_conn = "none"
    /\ run_out = "none"
    /\ CgIdle
    /\ SubjIdle
    /\ HttpIdle
    /\ GetIdle
    /\ HgIdle
    /\ StoreIdle

\* lines 32-43: connect, create_run, the counters
RunStart ==
    /\ run_pc = "idle"
    /\ run_out = "none"
    /\ run_pc' = "fetch"
    /\ run_conn' = "open"
    /\ run_rec' = Some(StartedRun)
    /\ run_cnt' = ZeroCounters
    /\ UNCHANGED <<run_site, run_opts, run_groups, run_attempts, run_finishes, run_out,
                   notRun>>

\* lines 114-128: the handler of the outer try, then the finally clause
OuterExcept(c) ==
    /\ run_finishes' = run_finishes \o <<c>>
    /\ run_rec' = Some(RunAfterCall(run_rec[1], c))
    /\ run_out' = IF c.raised THEN "raised" ELSE "returned"
    /\ run_conn' = "closed"
    /\ run_pc' = "done"

\* lines 54-61 and 127-128: no group, the run is finished as failed
NoGroups(c) ==
    /\ run_finishes' = run_finishes \o <<c>>
    /\ run_rec' = Some(RunAfterCall(run_rec[1], c))
    /\ run_out' = "returned"
    /\ run_conn' = "closed"
    /\ run_pc' = "done"

\* lines 47-64 with the groups left by the filter; upserted tells whether
\* upsert_groups returned
FetchedStep(groups, upserted) ==
    /\ run_groups' = groups
    /\ run_cnt' = [run_cnt EXCEPT !.total = Len(groups)]
    /\ IF groups = <<>>
       THEN NoGroups(FinishCall(55, "failed", ZeroCounters, run_conn))
       ELSE IF upserted
       THEN /\ run_pc' = "loop"
            /\ UNCHANGED <<run_finishes, run_rec, run_out, run_conn>>
       ELSE OuterExcept(FinishCall(115, "failed",
                                   [run_cnt EXCEPT !.total = Len(groups)], "aborted"))

\* lines 45-64: fetch_groups, the filter, upsert_groups
RunFetchGroups ==
    /\ run_pc = "fetch"
    /\ IF run_site.raises
       THEN /\ OuterExcept(FinishCall(115, "failed", run_cnt, run_conn))
            /\ UNCHANGED <<run_groups, run_cnt>>
       ELSE \E upserted \in BOOLEAN :
                FetchedStep(FilterGroups(run_site.groups, run_opts), upserted)
    /\ UNCHANGED <<run_site, run_opts, run_attempts, notRun>>

\* lines 67-95 for the group g with this outcome
GroupStep(g, outcome) ==
    /\ run_attempts' = run_attempts \o
           <<[code |-> g.code, cg_url |-> g.cg_url, kind |-> outcome.kind,
              inserted |-> outcome.inserted]>>
    /\ run_cnt' = CountersAfter(run_cnt, outcome)
    /\ run_conn' = ConnAfter(run_conn, outcome)
    /\ run_pc' = IF Len(run_attempts) + 1 = Len(run_groups) THEN "finish" ELSE "loop"

\* lines 67-95: one iteration of the loop over the groups
RunGroup ==
    /\ run_pc = "loop"
    /\ Len(run_attempts) < Len(run_groups)
    /\ \E outcome \in GroupOutcomes(run_conn) :
           GroupStep(run_groups[Len(run_attempts) + 1], outcome)
    /\ UNCHANGED <<run_site, run_opts, run_groups, run_finishes, run_rec, run_out, notRun>>

\* lines 98-128 for the call c of finish_run at line 99; when it raises the
\* handler of the outer try calls finish_run again
FinishStep(c, again) ==
    /\ run_finishes' = IF c.raised THEN run_finishes \o <<c, again>>
                       ELSE run_finishes \o <<c>>
    /\ run_rec' = Some(IF c.raised THEN RunAfterCall(run_rec[1], again)
                       ELSE RunAfterCall(run_rec[1], c))
    /\ run_out' = IF c.raised /\ again.raised THEN "raised" ELSE "returned"
    /\ run_conn' = "closed"
    /\ run_pc' = "done"

\* lines 97-128: the final status and finish_run
RunFinish ==
    /\ run_pc = "finish"
    /\ FinishStep(FinishCall(99, FinalStatus(run_cnt.failed), run_cnt, run_conn),
                  FinishCall(115, "failed", run_cnt, run_conn))
    /\ UNCHANGED <<run_site, run_opts, run_groups, run_cnt, run_attempts, notRun>>

NextRun == RunStart \/ RunFetchGroups \/ RunGroup \/ RunFinish

SpecRun == InitRun /\ [][NextRun]_vars

(***************************************************************************)
(* Vocabulary of the properties                                            *)
(***************************************************************************)
Finished(c) == result[c].status # "none"

HasReturned(c) == result[c].status = "returned"

\* a row of exactly three td whose first td holds a parseable date
IsDateRow(tr) == Len(tr) = 3 /\ _parse_date_from_text(TextOf(tr[1].content)) # None

DateOfRow(tr) == _parse_date_from_text(TextOf(tr[1].content))[1]

HasVisibleText(td) == \E i \in 1..Len(td.content) : ~AllSpace(td.content[i].text)

IsNonEmptyLessonTd(td) == IsLessonTd(td) /\ HasVisibleText(td)

\* the non-empty lesson cells of a row, left to right
NonEmptyLessonTds(tr) == SelectSeq(tr, IsNonEmptyLessonTd)

\* the column span of a td as an integer, None when it has none
ColspanOf(td) == IF td.colspan = None THEN None ELSE ParseInt(td.colspan[1])

\* the td of a row that the loop over its cells reaches: those before the
\* first lesson cell whose colspan is missing or not an integer
ReachedTds(tr) ==
    LET bad == {j \in 1..Len(tr) : IsLessonTd(tr[j]) /\ ColspanOf(tr[j]) = None}
    IN  IF bad = {} THEN tr ELSE SubSeq(tr, 1, Least(bad) - 1)

\* the cells of a row that give an event when the row is walked
EmittingTds(tr) == NonEmptyLessonTds(ReachedTds(tr))

\* the row the next iteration of the loop walks
NextRow == doc.rows[idx + 1]

\* a step of the loop that walks NextRow without raising
WalksRow == pc = "walk" /\ idx' = idx + 1 /\ pc' \in {"walk", "sort"}

\* a step of the loop, raising or not
StepsRow == pc = "walk" /\ idx' = idx + 1

\* the events a step of the loop appends
Emitted == SubSeq(events', Len(events) + 1, Len(events'))

\* the row that was walked last, in a state of the loop or at its end
InLoop == pc \in {"walk", "sort"} /\ idx >= 1

LastRow == doc.rows[idx]

KeyOrdered(a, b) ==
    \/ a.date < b.date
    \/ a.date = b.date /\ a.slot_number < b.slot_number
    \/ a.date = b.date /\ a.slot_number = b.slot_number /\ a.subgroup <= b.subgroup

(***************************************************************************)
(* Properties                                                              *)
(***************************************************************************)
\* C1: whenever parse_schedule_from_cg returns, the returned list is sorted
\* non-decreasingly by (date, slot_number, subgroup), whatever the order of
\* the date rows and cells of the document.
C1_ResultSorted ==
    \A c \in Calls :
        HasReturned(c) =>
            \A i \in 1..(Len(result[c].value) - 1) :
                KeyOrdered(result[c].value[i], result[c].value[i + 1])

\* C1 witness: a call returned events of a document whose rows carry a later
\* date before an earlier one.
C1_Witness ==
    /\ HasReturned(1)
    /\ Len(doc.rows) >= 2
    /\ IsDateRow(doc.rows[1]) /\ IsDateRow(doc.rows[2])
    /\ DateOfRow(doc.rows[1]) > DateOfRow(doc.rows[2])
    /\ \E i, j \in 1..Len(result[1].value) :
          i < j /\ result[1].value[i].date < result[1].value[j].date

\* C2: for a document without a table element every finished call has
\* returned the empty sequence and raised nothing.
C2_NoTableReturnsEmpty ==
    \A c \in Calls : (~doc.table /\ Finished(c)) => result[c] = Returned(<<>>)

\* C3: in a row walked inside a date block, the non-empty lesson cells that
\* the walk reaches give one event each, in order, and a cell whose colspan
\* equals the header's max colspan gives an event with subgroup 0; a row of a
\* single such cell gives exactly one event, with subgroup 0.
C3_WholeGroupSubgroupZero ==
    [][(StepsRow /\ DateAfterRow(NextRow, table_date) # None) =>
          /\ Len(Emitted) = Len(EmittingTds(NextRow))
          /\ \A j \in 1..Len(Emitted) :
                ColspanOf(EmittingTds(NextRow)[j]) = maxColspan =>
                    Emitted[j].subgroup = 0
          /\ (/\ Len(NextRow) = 1
              /\ IsNonEmptyLessonTd(NextRow[1])
              /\ ColspanOf(NextRow[1]) = maxColspan)
                 => (Len(Emitted) = 1 /\ Emitted[1].subgroup = 0)]_vars

\* C3 witness: inside a date block a row of a single cell of colspan = max
\* colspan has just been walked and its event has subgroup 0.
C3_Witness ==
    /\ InLoop
    /\ idx >= 2
    /\ table_date # None
    /\ maxColspan # None
    /\ Len(LastRow) = 1
    /\ IsNonEmptyLessonTd(LastRow[1])
    /\ ColspanOf(LastRow[1]) = maxColspan
    /\ events # <<>>
    /\ events[Len(events)].subgroup = 0
    /\ events[Len(events)].slot_number = slotNumber

\* the documents of C4: header max colspan 2, first row a date row carrying
\* 13.01.2026, second row made of two non-empty lesson cells of colspan 1
C4_Scenario ==
    /\ doc.table
    /\ _colspanCounter(doc) = [err |-> "", val |-> Some(2)]
    /\ Len(doc.rows) >= 2
    /\ IsDateRow(doc.rows[1])
    /\ DateOfRow(doc.rows[1]) = D_13
    /\ Len(doc.rows[2]) = 2
    /\ \A j \in 1..2 :
          IsNonEmptyLessonTd(doc.rows[2][j]) /\ ColspanOf(doc.rows[2][j]) = Some(1)

\* the events of the lesson row of C4 are evs: two events, subgroup 1 and 2,
\* both with slot number slot and date 2026-01-13
C4_TwoSubgroupEvents(evs, slot) ==
    /\ Len(evs) = 2
    /\ evs[1].subgroup = 1 /\ evs[2].subgroup = 2
    /\ \A j \in 1..2 : evs[j].slot_number = slot /\ evs[j].date = D_13

\* C4 as claimed: in the scenario the lesson row gives exactly two events,
\* subgroup 1 and subgroup 2, both with slot_number 1 and date 2026-01-13.
C4_Original ==
    [][(C4_Scenario /\ StepsRow /\ idx = 1) =>
          (pc' # "idle" /\ C4_TwoSubgroupEvents(Emitted, 1))]_vars

\* C4 amended: in the scenario the lesson row gives exactly two events,
\* subgroup 1 and subgroup 2, both with date 2026-01-13 and slot_number 2,
\* the date row itself being walked as the lesson row of slot 1; when the
\* document ends there, they are the last two events returned, after the
\* events of slot 1.
C4_Amended ==
    [][/\ (C4_Scenario /\ StepsRow /\ idx = 1) =>
             (pc' # "idle" /\ slotNumber = 1 /\ C4_TwoSubgroupEvents(Emitted, 2))
       /\ (C4_Scenario /\ Len(doc.rows) = 2 /\ pc = "sort") =>
             LET v == result'[call].value
             IN  /\ result'[call].status = "returned"
                 /\ Len(v) = Len(NonEmptyLessonTds(doc.rows[1])) + 2
                 /\ C4_TwoSubgroupEvents(SubSeq(v, Len(v) - 1, Len(v)), 2)
                 /\ \A i \in 1..(Len(v) - 2) : v[i].slot_number = 1]_vars

\* C4 witness: the call has returned for a document of the scenario that ends
\* with the lesson row, and the last two events have subgroup 1 and 2.
C4_Witness ==
    /\ C4_Scenario
    /\ Len(doc.rows) = 2
    /\ HasReturned(1)
    /\ Len(result[1].value) >= 2
    /\ result[1].value[Len(result[1].value) - 1].subgroup = 1
    /\ result[1].value[Len(result[1].value)].subgroup = 2

\* C5: whenever a row with exactly 3 cells and a parseable date is walked the
\* slot counter restarts, so that the events of that row, the first lesson row
\* of the date, have slot_number 1, also when the previous date block had
\* fewer than 8 lesson rows.
C5_DateRowRestartsSlots ==
    [][(WalksRow /\ IsDateRow(NextRow)) =>
          (slotNumber' = 1 /\ \A j \in 1..Len(Emitted) : Emitted[j].slot_number = 1)]_vars

\* C6: when the slot counter reaches 8 at the end of a lesson row the date
\* context is cleared and the counter is 0; while the date context is clear a
\* row that is not a date row emits nothing and leaves both as they are; and
\* the date row that follows is walked as slot 1.
C6_ResetAfterEightSlots ==
    [][/\ (WalksRow /\ DateAfterRow(NextRow, table_date) # None
                    /\ slotNumber + 1 = SlotLimit) =>
             (table_date' = None /\ slotNumber' = 0)
       /\ (StepsRow /\ table_date = None /\ ~IsDateRow(NextRow)) =>
             (events' = events /\ table_date' = None /\ slotNumber' = slotNumber)
       /\ (WalksRow /\ table_date = None /\ slotNumber = 0 /\ IsDateRow(NextRow)) =>
             (/\ slotNumber' = 1
              /\ table_date' = Some(DateOfRow(NextRow))
              /\ \A j \in 1..Len(Emitted) : Emitted[j].slot_number = 1)]_vars

\* C6 witness: an event of slot 8 was emitted, a later row with a non-empty
\* lesson cell gave nothing, and the date row after it has just given an
\* event of slot 1.
C6_Witness ==
    /\ InLoop
    /\ idx > SlotLimit + 1
    /\ IsDateRow(LastRow)
    /\ ~IsDateRow(doc.rows[idx - 1])
    /\ NonEmptyLessonTds(doc.rows[idx - 1]) # <<>>
    /\ slotNumber = 1
    /\ Len(events) >= 2
    /\ events[Len(events)].slot_number = 1
    /\ events[Len(events) - 1].slot_number = SlotLimit

\* C7: a lesson cell without visible text gives no event, whatever links or
\* attributes it carries: a row walked inside a date block appends exactly
\* one event per lesson cell that the walk reaches and that has visible text,
\* each with a non-empty subject, and a row outside a date block appends none.
C7_EmptyCellNoEvent ==
    [][/\ (StepsRow /\ DateAfterRow(NextRow, table_date) # None) =>
             /\ Len(Emitted) = Len(EmittingTds(NextRow))
             /\ \A j \in 1..Len(Emitted) : Emitted[j].subject_text # <<>>
       /\ (StepsRow /\ DateAfterRow(NextRow, table_date) = None) => Emitted = <<>>]_vars

\* C7 witness: inside a date block a row holding a lesson cell without visible
\* text but with a link has just been walked, and it gave fewer events than it
\* has lesson cells.
C7_Witness ==
    /\ InLoop
    /\ idx >= 2
    /\ table_date # None
    /\ Len(LastRow) # 3
    /\ \E j \in 1..Len(LastRow) :
          /\ IsLessonTd(LastRow[j])
          /\ ~HasVisibleText(LastRow[j])
          /\ FindLink(LastRow[j], "z1") # None
    /\ NonEmptyLessonTds(LastRow) # <<>>
    /\ Len(events) >= Len(NonEmptyLessonTds(LastRow))

\* s ends in one parenthetical without nested parentheses that opens at i
ParentheticalAt(s, i) ==
    /\ i < Len(s)
    /\ s[i] = "(" /\ s[Len(s)] = ")"
    /\ \A k \in (i + 1)..(Len(s) - 1) : ~IsParen(s[k])

EndsInParenthetical(s) == \E i \in 1..Len(s) : ParentheticalAt(s, i)

OpeningOf(s) == CHOOSE i \in 1..Len(s) : ParentheticalAt(s, i)

BlankToNone(s) == IF AllSpace(s) THEN None ELSE Some(Strip(s))

\* what C8 expects of the trimmed subject text s
C8_Expected(s) ==
    <<Strip(SubSeq(s, 1, OpeningOf(s) - 1)),
      BlankToNone(SubSeq(s, OpeningOf(s) + 1, Len(s) - 1))>>

\* C8: _parse_subject_and_type splits a subject text ending in one
\* parenthetical without nested parentheses into (trimmed prefix, trimmed inner
\* text), the type being None when the inner text is blank or when there is
\* no trailing parenthetical; the two documented strings split as documented;
\* a returned type is never empty and never contains a parenthesis.
C8_SubjectTypeSplit ==
    subj_out # None =>
        /\ EndsInParenthetical(Strip(subj_in)) => subj_out[1] = C8_Expected(Strip(subj_in))
        /\ ~EndsInParenthetical(Strip(subj_in)) => subj_out[1][2] = None
        /\ subj_in = S_FizkulturaLek =>
              subj_out[1] = <<SubSeq(S_FizkulturaLek, 1, 20), Some(<<"L", "e", "k", ".">>)>>
        /\ subj_in = S_Biologiya => subj_out[1] = <<SubSeq(S_Biologiya, 1, 9), None>>
        /\ subj_out[1][2] # None =>
              /\ subj_out[1][2][1] # <<>>
              /\ \A k \in 1..Len(subj_out[1][2][1]) : ~IsParen(subj_out[1][2][1][k])

\* C9: two calls on the same document that differ only in the date window end
\* alike, and what a call returns is the whole sorted list of the events it
\* walked, those dated outside its window included.
C9_WindowIgnored ==
    /\ (Finished(1) /\ Finished(2)) => result[1] = result[2]
    /\ \A c \in Calls :
          (call = c /\ pc = "idle" /\ HasReturned(c)) => result[c].value = events

\* C9 witness: both calls returned, their windows differ and the second one
\* returned an event dated outside its window.
C9_Witness ==
    /\ HasReturned(1) /\ HasReturned(2)
    /\ window[1] # window[2]
    /\ \E i \in 1..Len(result[2].value) :
          \/ result[2].value[i].date < window[2][1]
          \/ result[2].value[i].date > window[2][2]

\* C10: two calls with identical arguments end alike, and a call starts its
\* loop with fresh locals: no events, slot counter 0, no current date.
C10_PureFunction ==
    /\ (window[1] = window[2] /\ Finished(1) /\ Finished(2)) => result[1] = result[2]
    /\ (pc = "walk" /\ idx = 0) =>
          (events = <<>> /\ slotNumber = 0 /\ table_date = None /\ ~table_date_bound)

\* C10 witness: the second of two calls with identical arguments returned a
\* non-empty list after the first one left its slot counter above 0.
C10_Witness ==
    /\ window[1] = window[2]
    /\ HasReturned(1) /\ HasReturned(2)
    /\ result[2].value # <<>>
    /\ slotNumber > 0


\* the visible text of the last td of the thead, "" when there is none
LastHeadText(d) == GetTextStripped(d.headtds[Len(d.headtds)])

\* a table without a header value for the max colspan: no thead, no td in
\* the thead, or a last td of the thead without text
NoHeaderValue(d) ==
    /\ d.table
    /\ \/ ~d.thead
       \/ d.headtds = <<>>
       \/ LastHeadText(d) = <<>>

\* C11: on a table without a usable header value for the max colspan the
\* call raises and returns nothing: the loop over the rows is never entered
\* and no call on such a document ends by returning a list.
C11_NoHeaderValueRaises ==
    NoHeaderValue(doc) =>
        /\ pc = "idle"
        /\ \A c \in Calls : Finished(c) => result[c].status = "raised"


\* the exceptions that int(td.get("colspan")) raises on a lesson cell
CellErrors == {"TypeError", "ValueError"}

\* C12: on a document whose table and header colspan are present, a lesson
\* cell with a missing or non-numeric colspan attribute does not make the
\* call fail: no call ends with the exception of such a cell.
C12_MalformedCellTolerated ==
    _colspanCounter(doc).err = "" =>
        \A c \in Calls : result[c].error \notin CellErrors


\* the i-th row lies in a date block: the last date row at or before it is
\* fewer than SlotLimit rows back
InDateBlock(rows, i) ==
    \E d \in 1..i :
        /\ IsDateRow(rows[d])
        /\ \A e \in (d + 1)..i : ~IsDateRow(rows[e])
        /\ i - d + 1 <= SlotLimit

\* C13: a row walked without an exception appends at most one event per
\* non-empty lesson cell, and when the row lies in a date block it appends
\* exactly one per such cell, however many td the row has.
C13_OneEventPerCell ==
    [][WalksRow =>
          /\ Len(Emitted) <= Len(NonEmptyLessonTds(NextRow))
          /\ InDateBlock(doc.rows, idx + 1) =>
                Len(Emitted) = Len(NonEmptyLessonTds(NextRow))
      ]_vars


\* the positions in a row of the cells that give an event when it is walked
EmittingPositions(tr) ==
    {j \in 1..Len(ReachedTds(tr)) : IsNonEmptyLessonTd(tr[j])}

\* the position of the cell that gives the n-th event of the row
PositionOfEvent(tr, n) ==
    CHOOSE j \in EmittingPositions(tr) :
        Cardinality({i \in EmittingPositions(tr) : i <= j}) = n

\* how many lesson cells up to the j-th td are not whole-group cells
NonWholeRank(tr, j, maxc) ==
    Cardinality({i \in 1..j : IsLessonTd(tr[i]) /\ ColspanOf(tr[i]) # maxc})

\* the n-th event of the row carries the rank of its cell among the
\* non-whole-group cells of the row, when that cell is one of them
RankIsSubgroup(tr, j, ev, maxc) ==
    ColspanOf(tr[j]) # maxc => ev.subgroup = NonWholeRank(tr, j, maxc)

\* C19: in a row walked inside a date block, the event of the k-th lesson
\* cell that is not a whole-group cell has subgroup k, empty cells counted,
\* wherever the whole-group cells of the row stand.
C19_SubgroupIsRank ==
    [][(StepsRow /\ DateAfterRow(NextRow, table_date) # None) =>
          \A n \in 1..Len(Emitted) :
              RankIsSubgroup(NextRow, PositionOfEvent(NextRow, n), Emitted[n],
                             maxColspan)
      ]_vars


\* up to the i-th row, the last row of exactly three td is one without a
\* parseable date: no date row has come since
NoDateSince(rows, i) ==
    \E b \in 1..i :
        /\ Len(rows[b]) = 3
        /\ ~IsDateRow(rows[b])
        /\ \A e \in (b + 1)..i : ~IsDateRow(rows[e])

\* C20: a row of exactly three td without a parseable date unsets the date
\* context: that row and every row after it, up to the next date row, is
\* stepped over without an event and without an exception.
C20_UndatedRowsSkipped ==
    [][(StepsRow /\ NoDateSince(doc.rows, idx + 1)) =>
          /\ Emitted = <<>>
          /\ table_date' = None
          /\ pc' \in {"walk", "sort"}
      ]_vars

\* after a date row with an event, a three-td row without a date and then
\* a row with a non-empty lesson cell have been stepped over
C20_Witness ==
    /\ InLoop
    /\ idx >= 3
    /\ IsDateRow(doc.rows[idx - 2])
    /\ NoDateSince(doc.rows, idx - 1)
    /\ Len(LastRow) # 3
    /\ NonEmptyLessonTds(LastRow) # <<>>
    /\ Len(events) = Len(NonEmptyLessonTds(doc.rows[idx - 2]))
    /\ events # <<>>
    /\ table_date = None


\* a status that is neither 200, 429 nor 5xx
NonRetriableStatus(status) ==
    /\ status \notin {200, 429}
    /\ ~(500 <= status /\ status <= 599)

IsResponse(e) == e.op = "get" /\ e.exc = ""

IsFailedRequest(e) ==
    /\ e.op = "get"
    /\ \/ e.exc # ""
       \/ e.status = 429
       \/ 500 <= e.status /\ e.status <= 599

Requests(log) == Cardinality({i \in 1..Len(log) : log[i].op = "get"})

Sleeps(log) == Cardinality({i \in 1..Len(log) : log[i].op = "sleep"})

\* C14: a response with a status that is neither 200, 429 nor 5xx ends the
\* call at once with HttpClientError: it is the last entry of the log, so no
\* sleep and no further request follows it, and a first such response
\* leaves exactly one request made.
C14_NonRetriableFailsAtOnce ==
    \A i \in 1..Len(http_log) :
        (IsResponse(http_log[i]) /\ NonRetriableStatus(http_log[i].status)) =>
            /\ i = Len(http_log)
            /\ http_pc = "done"
            /\ http_out.status = "raised"
            /\ http_out.error = "HttpClientError"
            /\ http_out.detail = "Non-retriable status"

\* the first response is 404 and the call has raised after that one request
C14_Witness ==
    /\ http_log = <<GetEntry(Response(404))>>
    /\ Requests(http_log) = 1
    /\ Sleeps(http_log) = 0
    /\ http_out.status = "raised"

\* the requests and the sleeps alternate, starting with a request, and
\* every sleep lasts HTTP_RETRY_DELAY
Alternates(log) ==
    \A i \in 1..Len(log) :
        IF i % 2 = 1 THEN log[i].op = "get" ELSE log[i] = SleepEntry

\* the safety part of C15
C15_Bounded ==
    /\ Requests(http_log) <= 1 + HTTP_RETRIES
    /\ Alternates(http_log)
    /\ http_pc \in {"after", "done"} =>
          /\ http_log # <<>>
          /\ http_log[Len(http_log)].op = "get"
    /\ \A i \in 1..Len(http_log) :
          /\ (IsResponse(http_log[i]) /\ http_log[i].status = 200) =>
                /\ i = Len(http_log)
                /\ http_out = HttpReturned(200)
          /\ (IsFailedRequest(http_log[i]) /\ i < 2 * HTTP_RETRIES + 1) =>
                i < Len(http_log)
    /\ (http_pc = "done" /\ \A i \in 1..Len(http_log) :
                               http_log[i].op = "get" => IsFailedRequest(http_log[i])) =>
          /\ http_out.status = "raised"
          /\ http_out.error = "HttpClientError"
          /\ Requests(http_log) = 1 + HTTP_RETRIES
          /\ Sleeps(http_log) = HTTP_RETRIES

\* C15: _request_with_retry terminates, having made at most 1 + HTTP_RETRIES
\* requests: failed requests (transport errors, 429, 5xx) are retried with
\* one sleep of HTTP_RETRY_DELAY between consecutive requests and none after
\* the last, a 200 response is returned at once, and when every request
\* failed the call raises HttpClientError after exactly 1 + HTTP_RETRIES
\* requests and HTTP_RETRIES sleeps.
C15_TerminatesWithinBudget == []C15_Bounded /\ <>(http_pc = "done")

\* a transport error, a 429 and a 503: three requests, two sleeps, then the
\* HttpClientError of the exhausted budget
C15_Witness ==
    /\ http_pc = "done"
    /\ Len(http_log) = 2 * HTTP_RETRIES + 1
    /\ http_log[1] = GetEntry(Failure("Timeout"))
    /\ http_log[3] = GetEntry(Response(429))
    /\ http_log[5] = GetEntry(Response(503))
    /\ Sleeps(http_log) = HTTP_RETRIES
    /\ http_out = HttpRaised("last status")


\* cg, digits, .htm in either case
IsCgHref(s) ==
    \E k \in 1..Len(s) :
        /\ Len(s) = k + 6
        /\ [i \in 1..2 |-> Lower(s[i])] = <<"c", "g">>
        /\ \A i \in 3..(k + 2) : IsDigit(s[i])
        /\ [i \in 1..4 |-> Lower(s[k + 2 + i])] = <<".", "h", "t", "m">>

\* an a element that names a group: its href, surrounding whitespace
\* removed, is a cg href and its text is not empty
NamesGroup(a) ==
    /\ a.href # None
    /\ IsCgHref(Strip(a.href[1]))
    /\ GetTextStripped(<<a>>) # <<>>

PairOfLink(a) == <<GetTextStripped(<<a>>), Strip(a.href[1])>>

PairOfGroup(g) == <<g.code, g.cg_url>>

\* the (code, cg_url) pairs of the a elements that name a group
GroupPairs(links) ==
    {PairOfLink(links[i]) : i \in {j \in 1..Len(links) : NamesGroup(links[j])}}

\* C16: parse_groups_from_hg returns exactly the distinct (code, cg_url)
\* pairs of the links whose href (surrounding whitespace removed) is
\* cg<digits>.htm in either case and whose text is not empty, each pair
\* once, in non-decreasing order of code.
C16_GroupsDistinctSorted ==
    hg_out # None =>
        /\ {PairOfGroup(hg_out[1][i]) : i \in 1..Len(hg_out[1])} = GroupPairs(hg_doc)
        /\ \A i, j \in 1..Len(hg_out[1]) :
              i < j => /\ PairOfGroup(hg_out[1][i]) # PairOfGroup(hg_out[1][j])
                       /\ StrLE(hg_out[1][i].code, hg_out[1][j].code)

\* three links that name groups, the last two the same pair, the first with
\* the greater code: two groups are returned and the first link comes last
C16_Witness ==
    /\ hg_out # None
    /\ Len(hg_doc) = 3
    /\ \A i \in 1..3 : NamesGroup(hg_doc[i])
    /\ PairOfLink(hg_doc[2]) = PairOfLink(hg_doc[3])
    /\ hg_doc[2] # hg_doc[3]
    /\ Len(hg_out[1]) = 2
    /\ PairOfGroup(hg_out[1][2]) = PairOfLink(hg_doc[1])


\* the event a row of lesson_events was made from, as far as the keys go
EventOfRow(r) ==
    [date |-> r.event_date, slot_number |-> r.slot_number, subgroup |-> r.subgroup,
     subject_text |-> r.subject_text_raw, teacher_text |-> r.teacher_text_raw,
     room_text |-> r.room_text_raw, source_journal_url |-> r.source_journal_url]

HasJournal(e) == e.source_journal_url # None /\ e.source_journal_url # Some(<<>>)

\* the tuple (date, slot, subgroup, subject, teacher, room)
SixFieldKey(e) ==
    [journal |-> None, date |-> e.date, slot_number |-> e.slot_number,
     subgroup |-> e.subgroup, subject |-> Some(e.subject_text),
     teacher |-> e.teacher_text, room |-> e.room_text]

\* the journal reference when the event has one, else the six fields
JournalReferenceKey(e) ==
    IF HasJournal(e)
    THEN [journal |-> e.source_journal_url, date |-> 0, slot_number |-> 0,
          subgroup |-> 0, subject |-> None, teacher |-> None, room |-> None]
    ELSE SixFieldKey(e)

\* (date, slot, subgroup, journal reference) when the event has a journal
\* reference, else the six fields
DatedJournalKey(e) ==
    IF HasJournal(e)
    THEN [journal |-> e.source_journal_url, date |-> e.date,
          slot_number |-> e.slot_number, subgroup |-> e.subgroup,
          subject |-> None, teacher |-> None, room |-> None]
    ELSE SixFieldKey(e)

InsertedEvents == [i \in 1..Len(st_rows) |-> EventOfRow(st_rows[i])]

InputEvents == {st_args.events[i] : i \in 1..Len(st_args.events)}

\* C17 as stated: when replace_events_for_group returns, no two inserted
\* events share the key "journal reference if present, else (date, slot,
\* subgroup, subject, teacher, room)", and the returned count is the number
\* of distinct such keys in the input.
C17_Original ==
    st_out.status = "returned" =>
        /\ \A i, j \in 1..Len(st_rows) :
              i # j => JournalReferenceKey(InsertedEvents[i])
                           # JournalReferenceKey(InsertedEvents[j])
        /\ st_out.value = Cardinality({JournalReferenceKey(e) : e \in InputEvents})

\* C17 amended: when replace_events_for_group returns, no two inserted
\* events share the key, the key being (date, slot, subgroup, journal
\* reference) when the event has a non-empty journal reference and
\* otherwise (date, slot, subgroup, subject, teacher, room); the returned
\* count is the number of rows inserted and the number of distinct keys in
\* the input, 0 for an empty input.
C17_Amended ==
    st_out.status = "returned" =>
        /\ \A i, j \in 1..Len(st_rows) :
              i # j => DatedJournalKey(InsertedEvents[i])
                           # DatedJournalKey(InsertedEvents[j])
        /\ st_out.value = Len(st_rows)
        /\ st_out.value = Cardinality({DatedJournalKey(e) : e \in InputEvents})
        /\ st_args.events = <<>> => st_out.value = 0

\* three events with one journal reference, two of them in the same slot:
\* two rows are inserted, both with that journal reference
C17_Witness ==
    /\ st_out.status = "returned"
    /\ Len(st_args.events) = 3
    /\ Cardinality(InputEvents) = 3
    /\ \A e \in InputEvents : e.source_journal_url = U_j1
    /\ st_out.value = 2
    /\ Len(st_rows) = 2
    /\ st_rows[1].source_journal_url = st_rows[2].source_journal_url
    /\ st_rows[1].slot_number # st_rows[2].slot_number


RECURSIVE SumInserted(_, _)
SumInserted(attempts, n) ==
    IF n = 0 THEN 0
    ELSE SumInserted(attempts, n - 1)
             + (IF attempts[n].kind = "stored" THEN attempts[n].inserted ELSE 0)

StoredAttempts(attempts) == {k \in 1..Len(attempts) : attempts[k].kind = "stored"}

\* the k-th iteration of the loop was made for the k-th group of the list
AttemptedInOrder ==
    /\ Len(run_attempts) <= Len(run_groups)
    /\ \A k \in 1..Len(run_attempts) :
          /\ run_attempts[k].code = run_groups[k].code
          /\ run_attempts[k].cg_url = run_groups[k].cg_url

\* the call of finish_run after the loop reports every group of the list
FinalCallAddsUp(c) ==
    /\ Len(run_attempts) = Len(run_groups)
    /\ c.groups_total = Len(run_groups)
    /\ c.groups_ok + c.groups_failed = c.groups_total
    /\ c.groups_ok = Cardinality(StoredAttempts(run_attempts))
    /\ c.events_saved = SumInserted(run_attempts, Len(run_attempts))
    /\ c.status = "success" <=> c.groups_failed = 0
    /\ c.status = "partial" <=> c.groups_failed # 0

\* the row of parser_runs at the end of the run carries the counters of the
\* loop and the status that line 98 computes from them
FinalRecordAddsUp ==
    /\ run_rec[1].status = FinalStatus(run_cnt.failed)
    /\ run_rec[1].groups_total = Some(Len(run_groups))
    /\ run_rec[1].groups_ok = Some(run_cnt.ok)
    /\ run_rec[1].groups_failed = Some(run_cnt.failed)
    /\ run_rec[1].events_saved = Some(run_cnt.saved)

\* C18: a group that fails (fetch, parse or database) does not stop the
\* batch of run_parser: the groups of the list are attempted once each, in
\* order; once the loop was entered the run ends with the finish_run call
\* of line 99, made after the last group, in which groups_ok +
\* groups_failed = groups_total, events_saved is the sum of the inserted
\* counts of the stored groups, and the status is 'success' when
\* groups_failed = 0 and 'partial' otherwise; that call is the only one,
\* run_parser returns, and the status and the counters are those of the
\* run record at the end.
C18_BatchContinues ==
    /\ AttemptedInOrder
    /\ run_pc = "loop" => Len(run_attempts) < Len(run_groups)
    /\ (run_pc = "done" /\ run_attempts # <<>>) =>
          /\ Len(run_finishes) = 1
          /\ run_finishes[1].line = 99
          /\ ~run_finishes[1].raised
          /\ run_out = "returned"
          /\ FinalRecordAddsUp
    /\ \A i \in 1..Len(run_finishes) :
          run_finishes[i].line = 99 => i = 1 /\ FinalCallAddsUp(run_finishes[i])


\* no date row among the first i rows
NoDateUpTo(rows, i) == \A e \in 1..i : ~IsDateRow(rows[e])

\* C21: a row that comes before the first date row is stepped over: it
\* appends no event and raises nothing, whatever its number of td, the very
\* first row of the table included.
C21_RowsBeforeFirstDateSkipped ==
    [][(StepsRow /\ NoDateUpTo(doc.rows, idx + 1)) =>
          /\ Emitted = <<>>
          /\ pc' \in {"walk", "sort"}
      ]_vars


\* the last date row among the first i rows, 0 when there is none
RegionStart(rows, i) ==
    IF NoDateUpTo(rows, i) THEN 0
    ELSE CHOOSE d \in 1..i : IsDateRow(rows[d]) /\ \A e \in (d + 1)..i : ~IsDateRow(rows[e])

\* the rows from the last date row to the i-th one, that row included
RowsInRegion(rows, i) == i - RegionStart(rows, i) + 1

\* C22: a step of the loop on a lesson row adds one to the slot counter, a
\* step on any other row leaves it alone, and the counter returns to 0 only
\* from 8; every event carries the counter of its row, between 1 and 8; and
\* while a date is active the counter has not been reset since the date row
\* of the region, so a later lesson row of the region has a strictly larger
\* slot_number than an earlier one.
C22_SlotCounter ==
    [][StepsRow =>
          /\ IF DateAfterRow(NextRow, table_date) # None
             THEN \/ slotNumber' = slotNumber + 1
                  \/ slotNumber + 1 = SlotLimit /\ slotNumber' = 0
             ELSE slotNumber' = slotNumber
          /\ \A n \in 1..Len(Emitted) : Emitted[n].slot_number = slotNumber + 1
          /\ \A i \in 1..Len(events') :
                1 <= events'[i].slot_number /\ events'[i].slot_number <= SlotLimit
          /\ (table_date' # None /\ pc' # "idle") =>
                /\ RegionStart(doc.rows, idx + 1) >= 1
                /\ slotNumber' - RowsInRegion(doc.rows, idx + 1) + 1 >= 1
      ]_vars

\* C22 witness: a date row and seven more lesson rows took the counter to 8
\* and back to 0, and a second region of two lesson rows has events of
\* slots 1 and 2.
C22_Witness ==
    /\ pc = "sort"
    /\ idx = SlotLimit + 2
    /\ RegionStart(doc.rows, idx) = SlotLimit + 1
    /\ slotNumber = 2
    /\ table_date # None
    /\ \E i \in 1..Len(events) : events[i].slot_number = SlotLimit
    /\ events[Len(events)].slot_number = 2
    /\ events[Len(events) - 1].slot_number = 1


\* the td has no subject link: no a element of class z1 with an href
NoSubjectLink(td) == FindLink(td, "z1") = None

\* the event carries the split of the full visible text of the td
SplitsCellText(td, ev) ==
    /\ ev.lesson_type = _parse_subject_and_type(GetTextStripped(td.content))[2]
    /\ _parse_subject_and_type(GetTextStripped(td.content))[1] # <<>> =>
          ev.subject_text = _parse_subject_and_type(GetTextStripped(td.content))[1]

\* C23: the event of a lesson cell without a subject link carries the
\* subject/type split of the cell's full visible text: a cell with the text
\* "X (T)" gives subject_text "X" and lesson_type "T".
C23_LinklessCellSplit ==
    [][(StepsRow /\ DateAfterRow(NextRow, table_date) # None) =>
          \A j \in 1..Len(Emitted) :
              NoSubjectLink(EmittingTds(NextRow)[j]) =>
                  SplitsCellText(EmittingTds(NextRow)[j], Emitted[j])
      ]_vars


\* the trimmed text of the subject link of the td, "" when it has none
RawLinkText(td) ==
    IF NoSubjectLink(td) THEN <<>> ELSE Strip(GetTextStripped(<<FindLink(td, "z1")[1]>>))

\* subject_text when the split of the link text leaves no subject
FallbackSubject(td) ==
    IF RawLinkText(td) # <<>> THEN RawLinkText(td) ELSE GetTextStripped(td.content)

\* C24: every event appended, and every event a call returns, has a
\* non-empty subject_text; when the split of the subject link's text leaves
\* an empty subject (or there is no subject link) subject_text is the trimmed
\* link text, and the full visible text of the cell when that is empty.
C24_SubjectNeverEmpty ==
    [][/\ \A c \in Calls :
              result'[c].status = "returned" =>
                  \A i \in 1..Len(result'[c].value) :
                      result'[c].value[i].subject_text # <<>>
       /\ (StepsRow /\ DateAfterRow(NextRow, table_date) # None) =>
              \A j \in 1..Len(Emitted) :
                  /\ Emitted[j].subject_text # <<>>
                  /\ _parse_subject_and_type(RawLinkText(EmittingTds(NextRow)[j]))[1] = <<>> =>
                        Emitted[j].subject_text = FallbackSubject(EmittingTds(NextRow)[j])
      ]_vars

\* C24 witness: a call returned the events of a cell whose subject link is
\* only a parenthetical, of a cell whose subject link has a blank text and of
\* a cell without a subject link, with subject_text "(L)", "Q" and the cell
\* text.
C24_Witness ==
    /\ HasReturned(1)
    /\ Len(doc.rows) = 3
    /\ doc.rows[2] = RowLinkTexts
    /\ doc.rows[3] = RowNoHref
    /\ Len(result[1].value) = 4
    /\ result[1].value[2].subject_text = <<"(", "L", ")">>
    /\ result[1].value[2].lesson_type = Some(<<"L">>)
    /\ result[1].value[3].subject_text = <<"Q">>
    /\ result[1].value[4].subject_text = GetTextStripped(NoHrefTd.content)


\* the td has an a element of this class that carries an href attribute
HasLinkOfRole(td, cls) ==
    \E i \in 1..Len(td.content) :
        /\ td.content[i].tag = "a"
        /\ HasClass(td.content[i], cls)
        /\ td.content[i].href # None

\* text and reference of each link role are both None or both set, and set
\* exactly when the td has a link of the role with an href
RolesGoTogether(td, ev) ==
    /\ ev.room_text = None <=> ev.source_room_url = None
    /\ ev.teacher_text = None <=> ev.source_teacher_url = None
    /\ ev.source_room_url = None <=> ~HasLinkOfRole(td, "z2")
    /\ ev.source_teacher_url = None <=> ~HasLinkOfRole(td, "z3")
    /\ ev.source_journal_url = None <=> ~HasLinkOfRole(td, "z1")

\* C25: in every event appended the text and the reference of a link role
\* go together: room_text is None exactly when source_room_url is None,
\* teacher_text exactly when source_teacher_url is, and each reference is
\* None exactly when the cell has no link of the role with an href.
C25_TextAndReferenceTogether ==
    [][(StepsRow /\ DateAfterRow(NextRow, table_date) # None) =>
          \A j \in 1..Len(Emitted) :
              RolesGoTogether(EmittingTds(NextRow)[j], Emitted[j])
      ]_vars

\* C25 witness: the loop has walked a cell whose subject and teacher links
\* have no href and whose second room link has an empty one: the event has
\* no journal and no teacher, and the room of the second link with the
\* reference "".
C25_Witness ==
    /\ InLoop
    /\ LastRow = RowNoHref
    /\ events # <<>>
    /\ events[Len(events)].source_journal_url = None
    /\ events[Len(events)].teacher_text = None
    /\ events[Len(events)].source_teacher_url = None
    /\ events[Len(events)].room_text = Some(<<"8">>)
    /\ events[Len(events)].source_room_url = Some(<<>>)


\* the Content-Type of the response is absent or empty, or it names
\* text/html, in whatever case
HtmlTypeOrNone(resp) ==
    \/ resp.content_type = None
    \/ resp.content_type[1] = <<>>
    \/ Contains(StrLower(resp.content_type[1]), S_text_html)

\* the last call of _request_once answered with this status
LastRequestGave(status) ==
    /\ http_log # <<>>
    /\ http_log[Len(http_log)] = GetEntry(Response(status))

\* C26: get_html returns only the text of a response with status 200, a
\* body that is not blank and a Content-Type that, when present and not
\* empty, contains text/html; whatever it raises is an HttpClientError; and
\* once _request_with_retry has ended and the response was examined the call
\* has returned or raised.
C26_GetHtmlValidated ==
    /\ gh_out.status = "returned" =>
          /\ gh_resp # None
          /\ gh_resp[1].status_code = 200
          /\ LastRequestGave(200)
          /\ HtmlTypeOrNone(gh_resp[1])
          /\ gh_out.value = TextOfResponse(gh_resp[1])
          /\ ~AllSpace(gh_out.value)
    /\ gh_out.status = "raised" => gh_out.error = "HttpClientError"
    /\ gh_resp # None => gh_out.status \in {"returned", "raised"}
    /\ (gh_resp # None /\ gh_out.status = "raised") =>
          \/ ~HtmlTypeOrNone(gh_resp[1])
          \/ AllSpace(TextOfResponse(gh_resp[1]))

\* C26 witness: after two failed attempts a response with status 200 and the
\* Content-Type TEXT/HTML came, whose body is a page under the apparent
\* encoding only, and get_html returned that page.
C26_Witness ==
    /\ gh_out.status = "returned"
    /\ Len(http_log) = 2 * HTTP_RETRIES + 1
    /\ gh_resp[1].content_type = Some(<<"T", "E", "X", "T", "/", "H", "T", "M", "L">>)
    /\ gh_resp[1].text_declared = S_garbled
    /\ gh_out.value = S_page


\* the rows of lesson_events that are not of the group of the call or are
\* dated outside its window
OutsideWindow(tbl) ==
    LET outside(r) == \/ r.group_id # st_args.group_id
                      \/ r.event_date < st_args.date_from
                      \/ r.event_date > st_args.date_to
    IN  SelectSeq(tbl, outside)

IsPrefix(s, t) == Len(s) <= Len(t) /\ SubSeq(t, 1, Len(s)) = s

\* a step that starts a call of replace_events_for_group
StartsCall == st_calls' = st_calls + 1

\* C27: no step of replace_events_for_group removes a stored row of another
\* group or a row of the group dated outside [date_from, date_to]; the step
\* that starts the call removes exactly the rows of the group dated within
\* the window; and with an empty event list the call does so as well and
\* returns 0.
C27_DeletesOnlyWindow ==
    [][/\ IsPrefix(OutsideWindow(db_events), OutsideWindow(db_events'))
       /\ StartsCall => db_events' = OutsideWindow(db_events)
       /\ (StartsCall /\ st_args.events = <<>>) =>
             st_pc' = "done" /\ st_out' = StReturned(0)
      ]_vars

\* C27 witness: a call with an empty event list on a table holding a row of
\* the group inside the window, one outside it and one of another group has
\* returned 0, and only the first of the three rows is gone.
C27_Witness ==
    /\ st_pc = "done"
    /\ st_calls = 1
    /\ st_args.events = <<>>
    /\ st_out = StReturned(0)
    /\ st_before = StoredRows
    /\ db_events = <<StoredRows[2], StoredRows[3]>>


\* how many times the row r occurs in the table
Occurrences(tbl, r) == Cardinality({i \in 1..Len(tbl) : tbl[i] = r})

\* the two tables hold the same rows, each as many times
SameRows(s, t) ==
    \A r \in {s[i] : i \in 1..Len(s)} \cup {t[i] : i \in 1..Len(t)} :
        Occurrences(s, r) = Occurrences(t, r)

\* the second of two calls in a row with the same arguments has returned
SecondCallReturned == st_calls = 2 /\ st_pc = "done" /\ st_out.status = "returned"

\* C28: when the second of two calls of replace_events_for_group with the
\* same group, window and event list has returned, lesson_events holds the
\* rows it held after the first call, for any event list.
C28_Idempotent == SecondCallReturned => SameRows(db_events, st_before)


\* a call of replace_events_for_group has raised
CallRaised == st_pc = "done" /\ st_out.status = "raised"

\* C29: when replace_events_for_group raises after it started, lesson_events
\* is as the call found it: the rows stored before for the group in the
\* window are still there and no row of the new events is.
C29_AllOrNothing == CallRaised => db_events = st_before


FinalStatuses == {"success", "partial", "failed"}

\* run_parser has ended, by returning or by raising
RunEnded == run_pc = "done"

\* upsert_groups raised: there were groups and the loop was never entered
UpsertRaised == RunEnded /\ run_groups # <<>> /\ run_attempts = <<>>

\* no group was left after the filter
NoGroupLeft == RunEnded /\ ~run_site.raises /\ run_groups = <<>>

\* C30: when a call of run_parser that created its run record has ended,
\* finish_run was called exactly once and took effect, the status of the
\* record is one of success, partial and failed, never started, and the
\* connection is closed; the status is failed with all counters 0 and no
\* group attempted when no group was left after the filter, and failed when
\* fetch_groups or upsert_groups raised.
C30_RunFinishedOnce ==
    RunEnded =>
        /\ Len(run_finishes) = 1
        /\ ~run_finishes[1].raised
        /\ run_rec # None
        /\ run_rec[1].status \in FinalStatuses
        /\ run_conn = "closed"
        /\ NoGroupLeft =>
              /\ run_rec[1] = FinishedRun(FinishCall(55, "failed", ZeroCounters, "open"))
              /\ run_attempts = <<>>
        /\ (run_site.raises \/ UpsertRaised) => run_rec[1].status = "failed"

====
